---- MODULE Spec2Model ----
(***************************************************************************)
(* Semantic Score: the analyze serverless function and the scoring engine  *)
(* it runs (netlify/functions/analyze.js with its inlined engine, and the  *)
(* shared engine src/semanticAnalyzer.js; both are concatenated in         *)
(* src/netlify/functions/scrape-website.js).                               *)
(*                                                                         *)
(* Text is modelled as a sequence of tokens (words and punctuation marks   *)
(* as written, original case).  A regular expression of the source is      *)
(* modelled by the token pattern it matches.  Numbers are exact: a score   *)
(* is held in tenths (the code rounds every score to one decimal), a       *)
(* weight in hundredths, a weighted score in thousandths, a risk           *)
(* multiplier in tenths, money in dollars.                                 *)
(***************************************************************************)
EXTENDS Integers, Sequences, FiniteSets, TLC

(***************************************************************************)
(* JavaScript numbers.  NaN and Infinity are encoded as integers outside   *)
(* every finite value the program computes.                                *)
(***************************************************************************)
NaN == -(2^30)
Infinity == 2^30
NegInfinity == 1 - 2^30
IsFinite(x) == x \notin {NaN, Infinity, NegInfinity}

\* a + b
JsAdd(a, b) == IF a = NaN \/ b = NaN \/ {a, b} = {Infinity, NegInfinity} THEN NaN
               ELSE IF a = Infinity \/ b = Infinity THEN Infinity
               ELSE IF a = NegInfinity \/ b = NegInfinity THEN NegInfinity
               ELSE a + b
\* a * k for a finite k > 0
JsScale(a, k) == IF IsFinite(a) THEN a * k ELSE a
\* a >= b, false when either is NaN
JsGe(a, b) ==
  /\ a # NaN
  /\ b # NaN
  /\ \/ a = Infinity
     \/ b = NegInfinity
     \/ IsFinite(a) /\ IsFinite(b) /\ a >= b
\* a <= b, false when either is NaN
JsLe(a, b) == JsGe(b, a)
\* a < b, false when either is NaN
JsLt(a, b) == a # NaN /\ b # NaN /\ ~JsGe(a, b)
\* Math.min(a, b)
JsMin(a, b) == IF a = NaN \/ b = NaN THEN NaN ELSE IF JsLe(a, b) THEN a ELSE b
\* Math.max(a, b)
JsMax(a, b) == IF a = NaN \/ b = NaN THEN NaN ELSE IF JsGe(a, b) THEN a ELSE b

\* Math.round(n / d) for d > 0: the nearest integer, halves towards +Infinity
RoundDiv(n, d) == (2 * n + d) \div (2 * d)
\* Math.round(k * n / d), with JavaScript's n / 0
JsRoundRatio(n, d, k) ==
  IF d = 0 THEN (IF n = 0 THEN NaN ELSE IF n > 0 THEN Infinity ELSE NegInfinity)
  ELSE IF d > 0 THEN RoundDiv(k * n, d) ELSE RoundDiv(-(k * n), -d)
\* Math.round(x / k) for a finite k > 0
JsRoundTo(x, k) == IF IsFinite(x) THEN RoundDiv(x, k) ELSE x

Min2(a, b) == IF a <= b THEN a ELSE b
Max2(a, b) == IF a >= b THEN a ELSE b

RECURSIVE SumSeq(_)
SumSeq(s) == IF s = <<>> THEN 0 ELSE JsAdd(Head(s), SumSeq(Tail(s)))

\* Array.prototype.slice(0, n)
Slice(s, n) == SubSeq(s, 1, Min2(Len(s), n))

Range(s) == {s[i] : i \in 1..Len(s)}

(***************************************************************************)
(* Text.                                                                   *)
(***************************************************************************)
\* String.prototype.toLowerCase, on the words the documents use
Lower(t) ==
  CASE t = "We" -> "we"
    [] t = "The" -> "the"
    [] t = "Support" -> "support"
    [] t = "PM" -> "pm"
    [] t = "ROI" -> "roi"
    [] t = "API" -> "api"
    [] t = "SLA" -> "sla"
    [] OTHER -> t

LowerSeq(text) == [i \in 1..Len(text) |-> Lower(text[i])]

\* /[A-Z]{2,}/ on one word
IsAllCaps(t) == t \in {"PM", "ROI", "API", "SLA"}

\* the positions at which the phrase (a token sequence) starts in the text
PhraseAt(text, phrase) ==
  {i \in 1..(Len(text) - Len(phrase) + 1) :
     \A k \in 1..Len(phrase) : text[i + k - 1] = phrase[k]}

\* (text.match(new RegExp(escapeRegex(phrase), 'gi')) || []).length
CountPhrase(text, phrase) == Cardinality(PhraseAt(text, phrase))

\* String.prototype.includes
Includes(text, phrase) == PhraseAt(text, phrase) # {}

RECURSIVE CountPhrases(_, _)
CountPhrases(text, phrases) ==
  IF phrases = <<>> THEN 0
  ELSE CountPhrase(text, Head(phrases)) + CountPhrases(text, Tail(phrases))

\* the positions of a word of the set ws
WordAt(text, ws) == {i \in 1..Len(text) : text[i] \in ws}

(***************************************************************************)
(* termLibrary.js                                                          *)
(***************************************************************************)
PROMISE_WORD == "promise_word"
LIFECYCLE_VERB == "lifecycle_verb"
FINANCIAL_STRATEGIC == "financial_strategic"
STATUS_LABEL == "status_label"
OWNERSHIP_TERM == "ownership_term"
GENERAL == "general"

TermCategory ==
  {PROMISE_WORD, LIFECYCLE_VERB, FINANCIAL_STRATEGIC, STATUS_LABEL, OWNERSHIP_TERM, GENERAL}

\* in tenths: 3.0, 2.5, 2.0, 2.0, 1.5, 1.0
TERM_RISK_MULTIPLIERS(category) ==
  CASE category = PROMISE_WORD -> 30
    [] category = LIFECYCLE_VERB -> 25
    [] category = FINANCIAL_STRATEGIC -> 20
    [] category = STATUS_LABEL -> 20
    [] category = OWNERSHIP_TERM -> 15
    [] category = GENERAL -> 10

\* Object.keys(TERM_LIBRARY), in the order of the source; the single-word
\* entries the documents of the model can hit, one or more per category
LibraryTerms ==
  <<"support", "unlimited", "onboarding", "roi", "priority", "owns", "client">>

TERM_LIBRARY(term) ==
  CASE term \in {"support", "unlimited"} -> PROMISE_WORD
    [] term = "onboarding" -> LIFECYCLE_VERB
    [] term = "roi" -> FINANCIAL_STRATEGIC
    [] term = "priority" -> STATUS_LABEL
    [] term = "owns" -> OWNERSHIP_TERM
    [] term = "client" -> GENERAL
    [] OTHER -> "none"

getTermCategory(term) == TERM_LIBRARY(Lower(term))

getRiskMultiplier(category) ==
  IF category \in TermCategory THEN TERM_RISK_MULTIPLIERS(category) ELSE 10

VAGUE_PATTERNS ==
  << <<"as", "appropriate">>, <<"as", "needed">>, <<"reasonable">>, <<"reasonably">>,
     <<"timely">>, <<"adequate">>, <<"sufficient">>, <<"high-quality">>,
     <<"high", "quality">>, <<"best", "efforts">>, <<"good", "faith">>,
     <<"substantial">>, <<"substantially">>, <<"material">>, <<"materially">>,
     <<"significant">>, <<"significantly">>, <<"appropriate">>, <<"appropriately">>,
     <<"proper">>, <<"properly">>, <<"suitable">>, <<"suitably">>, <<"satisfactory">>,
     <<"acceptable">>, <<"generally">>, <<"typically">>, <<"usually">>, <<"normally">>,
     <<"approximately">>, <<"about">>, <<"around">>, <<"roughly">>, <<"promptly">>,
     <<"soon">>, <<"quickly">>, <<"efficiently">>, <<"effectively">> >>

EXCLUSION_SIGNALS ==
  << <<"does", "not", "include">>, <<"excludes">>, <<"excluding">>, <<"not", "included">>,
     <<"outside", "scope">>, <<"out", "of", "scope">>, <<"not", "covered">>,
     <<"this", "is", "not">>, <<"we", "do", "not">>, <<"we", "will", "not">>,
     <<"limitations">>, <<"restrictions">>, <<"exceptions">> >>

INCLUSION_SIGNALS ==
  << <<"includes">>, <<"including">>, <<"specifically">>, <<"covers">>, <<"covered">>,
     <<"encompasses">>, <<"consists", "of">>, <<"comprised", "of">>, <<"contains">>,
     <<"features">> >>

LIMIT_SIGNALS ==
  << <<"up", "to">>, <<"maximum">>, <<"max">>, <<"minimum">>, <<"min">>,
     <<"limited", "to">>, <<"no", "more", "than">>, <<"no", "less", "than">>,
     <<"at", "least">>, <<"at", "most">>, <<"not", "to", "exceed">>, <<"within">>,
     <<"per", "month">>, <<"per", "week">>, <<"per", "day">>, <<"per", "year">>,
     <<"annually">>, <<"monthly">>, <<"weekly">>, <<"daily">>, <<"hours">> >>


(***************************************************************************)
(* The engine: extraction and term analysis.  An input document is a       *)
(* record [id, name, content, wordCount]; content is a token sequence.     *)
(***************************************************************************)
\* the indices 1..n as a sequence
Indices(n) == [i \in 1..n |-> i]

\* extractTerms: the occurrences of one term in one document, in match order.
\* The context is content.slice(index - 100, index + term.length + 100).trim();
\* every document of the model is shorter than 100 characters, and the window
\* is taken here in tokens.
OccurrencesIn(input, term) ==
  LET lowered == LowerSeq(input.content)
      hits == SelectSeq(Indices(Len(lowered)), LAMBDA i : lowered[i] = term)
  IN [k \in 1..Len(hits) |->
        [docId |-> input.id,
         docName |-> input.name,
         context |-> SubSeq(input.content, Max2(1, hits[k] - 100),
                            Min2(Len(input.content), hits[k] + 100))]]

RECURSIVE OccurrencesOf(_, _)
OccurrencesOf(inputs, term) ==
  IF inputs = <<>> THEN <<>>
  ELSE OccurrencesIn(Head(inputs), term) \o OccurrencesOf(Tail(inputs), term)

\* the keys of termOccurrences in insertion order: document order, then the
\* order of Object.keys(TERM_LIBRARY)
RECURSIVE TermKeys(_)
TermKeys(inputs) ==
  IF inputs = <<>> THEN <<>>
  ELSE LET before == TermKeys(SubSeq(inputs, 1, Len(inputs) - 1))
           last == inputs[Len(inputs)]
       IN before \o SelectSeq(LibraryTerms,
                      LAMBDA t : OccurrencesIn(last, t) # <<>> /\ t \notin Range(before))

\* extractTerms(inputs): Object.entries(termOccurrences)
extractTerms(inputs) ==
  LET keys == TermKeys(inputs)
  IN [k \in 1..Len(keys) |->
        [term |-> keys[k], occurrences |-> OccurrencesOf(inputs, keys[k])]]

Terminators == {".", "!", "?"}
Punctuation == Terminators \cup {":", "-", "(", ")", ","}
\* \w+
IsWord(t) == t \notin Punctuation

\* ([^.]+) from position i: the tokens up to the next full stop
CaptureFrom(text, i) ==
  LET stops == {j \in i..Len(text) : text[j] = "."}
      end == IF stops = {} THEN Len(text)
             ELSE (CHOOSE j \in stops : \A k \in stops : j <= k) - 1
  IN SubSeq(text, i, end)

\* the definitional templates of findDefinition, each as the set of pairs
\* <<start of the match, start of the captured group>>
\* term\s+(?:means?|is defined as|refers to)\s+([^.]+)
DefPattern1(text, term) ==
  {m \in WordAt(text, {term}) \X (1..Len(text)) :
     /\ SubSeq(text, m[1] + 1, m[2] - 1) \in
          {<<"means">>, <<"mean">>, <<"is", "defined", "as">>, <<"refers", "to">>}
     /\ text[m[2]] # "."}

\* (?:by|when we say)\s+term,?\s+(?:we mean|this means)\s+([^.]+)
DefPattern2(text, term) ==
  {m \in WordAt(text, {"by", "when"}) \X (1..Len(text)) :
     /\ \E t \in WordAt(text, {term}) :
          /\ SubSeq(text, m[1], t - 1) \in {<<"by">>, <<"when", "we", "say">>}
          /\ SubSeq(text, t + 1, m[2] - 1) \in
               {<<"we", "mean">>, <<"this", "means">>,
                <<",", "we", "mean">>, <<",", "this", "means">>}
     /\ text[m[2]] # "."}

\* term\s*[-:]\s*([^.]+): the group may capture white space alone
DefPattern3(text, term) ==
  {m \in WordAt(text, {term}) \X (1..Len(text)) :
     /\ m[2] = m[1] + 2
     /\ text[m[1] + 1] \in {"-", ":"}}

\* definition of\s+term\s*[-:]\s*([^.]+)  (semanticAnalyzer.js only)
DefPattern4(text, term) ==
  {m \in WordAt(text, {"definition"}) \X (1..Len(text)) :
     /\ m[2] = m[1] + 4
     /\ SubSeq(text, m[1], m[1] + 3) \in
          {<<"definition", "of", term, "-">>, <<"definition", "of", term, ":">>}}

DefPatterns(impl, text, term) ==
  << DefPattern1(text, term), DefPattern2(text, term), DefPattern3(text, term) >>
  \o (IF impl = "shared" THEN << DefPattern4(text, term) >> ELSE <<>>)

NoDefinition == [found |-> FALSE, text |-> <<>>, hasThreshold |-> FALSE, hasBoundary |-> FALSE]

\* findDefinition(term, content): the first template that matches, at its
\* leftmost match; null is NoDefinition
findDefinition(impl, term, content) ==
  LET lowered == LowerSeq(content)
      patterns == DefPatterns(impl, lowered, term)
      matching == {p \in 1..Len(patterns) : patterns[p] # {}}
  IN IF matching = {} THEN NoDefinition
     ELSE LET p == CHOOSE q \in matching : \A r \in matching : q <= r
              m == CHOOSE a \in patterns[p] : \A b \in patterns[p] : a[1] <= b[1]
              text == Slice(CaptureFrom(lowered, m[2]), 200)
          IN [found |-> TRUE,
              text |-> text,
              hasThreshold |-> \E k \in 1..Len(LIMIT_SIGNALS) : Includes(text, LIMIT_SIGNALS[k]),
              hasBoundary |->
                \E k \in 1..Len(EXCLUSION_SIGNALS \o INCLUSION_SIGNALS) :
                   Includes(text, (EXCLUSION_SIGNALS \o INCLUSION_SIGNALS)[k])]


\* Array.from(new Set(names)): the distinct names, in order of first use
RECURSIVE Distinct(_)
Distinct(names) ==
  IF names = <<>> THEN <<>>
  ELSE LET before == Distinct(SubSeq(names, 1, Len(names) - 1))
           last == names[Len(names)]
       IN IF last \in Range(before) THEN before ELSE Append(before, last)

\* a variant that keeps the definition of the last document that has one
LastDefinition(impl, term, inputs) ==
  LET hits == {i \in 1..Len(inputs) : findDefinition(impl, term, inputs[i].content).found}
  IN IF hits = {} THEN NoDefinition
     ELSE findDefinition(impl, term,
                         inputs[CHOOSE i \in hits : \A j \in hits : i >= j].content)

\* the loop over the inputs in analyzeTerms: the first document, in input
\* order, in which findDefinition finds a definition
RECURSIVE FirstDefinition(_, _, _)
FirstDefinition(impl, term, inputs) ==
  IF inputs = <<>> THEN NoDefinition
  ELSE LET defResult == findDefinition(impl, term, Head(inputs).content)
       IN IF defResult.found THEN defResult
          ELSE FirstDefinition(impl, term, Tail(inputs))

\* a variant that takes a definition with both signals for none
definitionQualityOfBothAsMissing(defResult) ==
  IF ~defResult.found THEN "missing"
  ELSE IF defResult.hasThreshold /\ defResult.hasBoundary THEN "missing"
  ELSE IF defResult.hasThreshold \/ defResult.hasBoundary THEN "partial"
  ELSE "minimal"
definitionQualityOf(defResult) ==
  IF ~defResult.found THEN "missing"
  ELSE IF defResult.hasThreshold /\ defResult.hasBoundary THEN "complete"
  ELSE IF defResult.hasThreshold \/ defResult.hasBoundary THEN "partial"
  ELSE "minimal"

\* one iteration of the loop of analyzeTerms, up to the consistency check:
\* the term's analysis with inconsistencyDetected still false
analyzeTerm(impl, entry, inputs) ==
  LET category == IF getTermCategory(entry.term) = "none" THEN GENERAL
                  ELSE getTermCategory(entry.term)
      defResult == FirstDefinition(impl, entry.term, inputs)
  IN [term |-> entry.term,
      category |-> category,
      riskMultiplier |-> getRiskMultiplier(category),
      occurrences |-> Len(entry.occurrences),
      documents |-> Distinct([k \in 1..Len(entry.occurrences) |-> entry.occurrences[k].docName]),
      isDefined |-> defResult.found,
      definitionQuality |-> definitionQualityOf(defResult),
      hasThreshold |-> defResult.hasThreshold,
      hasBoundary |-> defResult.hasBoundary,
      contexts |-> [k \in 1..Min2(5, Len(entry.occurrences)) |-> entry.occurrences[k].context],
      inconsistencyDetected |-> FALSE]

(***************************************************************************)
(* The engine: the six component scorers.  Each returns [score, details],  *)
(* the score in tenths.                                                    *)
(***************************************************************************)
\* a variant of the table read upside down
qualityScoresInverted(quality) ==
  CASE quality = "complete" -> 0
    [] quality = "partial" -> 3
    [] quality = "minimal" -> 6
    [] quality = "missing" -> 10
\* qualityScores, in tenths
qualityScores(quality) ==
  CASE quality = "complete" -> 10
    [] quality = "partial" -> 6
    [] quality = "minimal" -> 3
    [] quality = "missing" -> 0

scoreDefinitionCoverage(termAnalyses) ==
  IF Len(termAnalyses) = 0
  THEN [score |-> 500, details |-> [terms_found |-> 0, terms_defined |-> 0, terms_undefined |-> 0]]
  ELSE LET totalWeight == SumSeq([k \in 1..Len(termAnalyses) |-> termAnalyses[k].riskMultiplier])
           definedWeight ==
             SumSeq([k \in 1..Len(termAnalyses) |->
                       termAnalyses[k].riskMultiplier * qualityScores(termAnalyses[k].definitionQuality)])
           termsDefined == Len(SelectSeq(termAnalyses, LAMBDA t : t.isDefined))
       IN [score |-> IF totalWeight > 0 THEN JsRoundRatio(definedWeight, 10 * totalWeight, 1000)
                     ELSE 500,
           details |-> [terms_found |-> Len(termAnalyses),
                        terms_defined |-> termsDefined,
                        terms_undefined |-> Len(termAnalyses) - termsDefined]]

scoreConsistency(termAnalyses) ==
  LET crossDocTerms == SelectSeq(termAnalyses, LAMBDA t : Len(t.documents) > 1)
  IN IF Len(crossDocTerms) = 0
     THEN [score |-> 800, details |-> [cross_doc_terms |-> 0, consistent |-> 0, inconsistent |-> 0]]
     ELSE LET totalWeight == SumSeq([k \in 1..Len(crossDocTerms) |-> crossDocTerms[k].riskMultiplier])
              consistentWeight ==
                SumSeq([k \in 1..Len(crossDocTerms) |->
                          IF ~crossDocTerms[k].inconsistencyDetected
                          THEN crossDocTerms[k].riskMultiplier ELSE 0])
              inconsistentCount == Len(SelectSeq(crossDocTerms, LAMBDA t : t.inconsistencyDetected))
          IN [score |-> IF totalWeight > 0 THEN JsRoundRatio(consistentWeight, totalWeight, 1000)
                        ELSE 800,
              details |-> [cross_doc_terms |-> Len(crossDocTerms),
                           consistent |-> Len(crossDocTerms) - inconsistentCount,
                           inconsistent |-> inconsistentCount]]

\* the promise patterns, as the number of matches in a lower-cased text
\* /\b(?:we\s+)?(?:will|shall|provide|offer|deliver|ensure|guarantee)\b/gi
PromiseVerbs(c) ==
  Cardinality(WordAt(c, {"will", "shall", "provide", "offer", "deliver", "ensure", "guarantee"}))
\* /\b(?:unlimited|comprehensive|full.service)\b/gi
PromiseAdjectivesInline(c) ==
  Cardinality(WordAt(c, {"unlimited", "comprehensive", "full-service"}))
    + CountPhrase(c, <<"full", "service">>)
\* /\b(?:unlimited|comprehensive|full.service|all.inclusive)\b/gi
PromiseAdjectivesShared(c) ==
  PromiseAdjectivesInline(c) + Cardinality(WordAt(c, {"all-inclusive"}))
    + CountPhrase(c, <<"all", "inclusive">>)
\* /\b(?:support|partnership|commitment)\b/gi
PromiseNouns(c) == Cardinality(WordAt(c, {"support", "partnership", "commitment"}))

promiseCountOf(impl, c) ==
  IF impl = "shared" THEN PromiseVerbs(c) + PromiseAdjectivesShared(c) + PromiseNouns(c)
  ELSE PromiseVerbs(c) + PromiseAdjectivesInline(c)

\* a variant without Math.min(100, ...)
scoreBoundaryClarityUncapped(impl, inputs) ==
  LET promiseCount ==
        SumSeq([k \in 1..Len(inputs) |-> promiseCountOf(impl, LowerSeq(inputs[k].content))])
      boundedCount ==
        SumSeq([k \in 1..Len(inputs) |->
                  CountPhrases(LowerSeq(inputs[k].content),
                               EXCLUSION_SIGNALS \o INCLUSION_SIGNALS \o LIMIT_SIGNALS)])
  IN [score |-> IF promiseCount = 0 THEN 700
                ELSE JsRoundRatio(boundedCount, promiseCount, 1000),
      details |-> [promises_found |-> promiseCount, boundary_signals |-> boundedCount]]
scoreBoundaryClarity(impl, inputs) ==
  LET promiseCount ==
        SumSeq([k \in 1..Len(inputs) |-> promiseCountOf(impl, LowerSeq(inputs[k].content))])
      boundedCount ==
        SumSeq([k \in 1..Len(inputs) |->
                  CountPhrases(LowerSeq(inputs[k].content),
                               EXCLUSION_SIGNALS \o INCLUSION_SIGNALS \o LIMIT_SIGNALS)])
      score == IF promiseCount = 0 THEN 700
               ELSE JsMin(1000, JsRoundRatio(boundedCount, promiseCount, 1000))
  IN [score |-> score,
      details |->
        IF impl = "shared"
        THEN [promises_found |-> promiseCount, boundary_signals |-> boundedCount,
              ratio |-> JsRoundRatio(boundedCount, Max2(1, promiseCount), 100)]
        ELSE [promises_found |-> promiseCount, boundary_signals |-> boundedCount]]

\* content.split(/[.!?]+/).length: one more than the runs of terminators
SentenceCount(content) == Cardinality(WordAt(content, Terminators)) + 1

scoreThresholdSpecificity(impl, inputs) ==
  LET totalStatements == SumSeq([k \in 1..Len(inputs) |-> SentenceCount(inputs[k].content)])
      vagueStatements ==
        SumSeq([k \in 1..Len(inputs) |->
                  CountPhrases(LowerSeq(inputs[k].content), VAGUE_PATTERNS)])
  IN IF totalStatements = 0
     THEN [score |-> 700, details |-> [criteria_statements |-> 0, vague_patterns_found |-> 0]]
     ELSE LET score ==
                JsMax(0, JsRoundRatio(100 * totalStatements - 200 * vagueStatements,
                                      totalStatements, 10))
          IN [score |-> score,
              details |->
                IF impl = "shared"
                THEN [criteria_statements |-> totalStatements,
                      vague_patterns_found |-> vagueStatements,
                      vague_ratio |-> JsRoundRatio(vagueStatements, totalStatements, 1000)]
                ELSE [criteria_statements |-> totalStatements,
                      vague_patterns_found |-> vagueStatements]]


\* new RegExp(`\\(${m}\\)|${m}\\s*\\([^)]+\\)`).test(content)
Explained(content, m) ==
  \/ Includes(content, <<"(", m, ")">>)
  \/ \E i \in PhraseAt(content, <<m, "(">>) :
       \E j \in (i + 3)..Len(content) :
          /\ content[j] = ")"
          /\ \A k \in (i + 2)..(j - 1) : content[k] # ")"

\* content.match(/\b[A-Z]{2,}\b/g)
AcronymsIn(content) == {content[i] : i \in {j \in 1..Len(content) : IsAllCaps(content[j])}}

totalWordCount(inputs) == SumSeq([k \in 1..Len(inputs) |-> inputs[k].wordCount])

scoreJargonLoad(impl, inputs) ==
  LET acronyms == UNION {AcronymsIn(inputs[k].content) : k \in 1..Len(inputs)}
      unexplained ==
        UNION {{m \in AcronymsIn(inputs[k].content) : ~Explained(inputs[k].content, m)} :
                 k \in 1..Len(inputs)}
      totalWords == totalWordCount(inputs)
      u == Cardinality(unexplained)
      \* density <= halves / 2, for density = u / (totalWords / 100); u / 0 is
      \* NaN or Infinity, and a negative density is below every tier
      densityLe(halves) ==
        IF totalWords = 0 THEN FALSE
        ELSE IF totalWords > 0 THEN 200 * u <= halves * totalWords
        ELSE TRUE
  IN IF totalWords = 0
     THEN [score |-> 800, details |-> [acronyms_found |-> 0, unexplained |-> 0]]
     ELSE [score |-> IF densityLe(1) THEN 950
                     ELSE IF densityLe(2) THEN 850
                     ELSE IF densityLe(4) THEN 700
                     ELSE IF densityLe(8) THEN 500
                     ELSE 300,
           details |->
             IF impl = "shared"
             THEN [acronyms_found |-> Cardinality(acronyms), unexplained |-> u,
                   jargon_density |-> JsRoundRatio(u, totalWords, 10000)]
             ELSE [acronyms_found |-> Cardinality(acronyms), unexplained |-> u]]

\* the ownership patterns, as the number of matches in a text (they are
\* matched on the original text, case-insensitively)
\* /\b(\w+)\s+(?:is|are)\s+responsible\s+for\b/gi
ClearResponsible(c) ==
  Cardinality({i \in PhraseAt(c, <<"is", "responsible", "for">>)
                 \cup PhraseAt(c, <<"are", "responsible", "for">>) :
                 i > 1 /\ IsWord(c[i - 1])})
\* /\b(\w+)\s+owns?\b/gi
ClearOwns(c) == Cardinality({i \in WordAt(c, {"own", "owns"}) : i > 1 /\ IsWord(c[i - 1])})
\* /\b(\w+)\s+(?:will|shall)\s+(?:handle|manage|lead)\b/gi
ClearWillHandle(c) ==
  Cardinality({i \in WordAt(c, {"will", "shall"}) :
                 /\ i > 1 /\ IsWord(c[i - 1])
                 /\ i < Len(c) /\ c[i + 1] \in {"handle", "manage", "lead"}})
\* /\bresponsibility\s+of\s+(?:the\s+)?(\w+)/gi
ClearResponsibilityOf(c) ==
  Cardinality({i \in PhraseAt(c, <<"responsibility", "of">>) :
                 i + 2 <= Len(c) /\ IsWord(c[i + 2])})
\* /\b(?:we|they|someone)\s+will\b/gi
VagueWeWill(c) ==
  Cardinality(PhraseAt(c, <<"we", "will">>) \cup PhraseAt(c, <<"they", "will">>)
                \cup PhraseAt(c, <<"someone", "will">>))
\* /\bwill\s+be\s+(?:handled|managed)\b/gi
VagueWillBe(c) ==
  Cardinality(PhraseAt(c, <<"will", "be", "handled">>) \cup PhraseAt(c, <<"will", "be", "managed">>))
\* /\bshould\s+be\s+(?:done|completed)\b/gi
VagueShouldBe(c) ==
  Cardinality(PhraseAt(c, <<"should", "be", "done">>) \cup PhraseAt(c, <<"should", "be", "completed">>))

clearOwnershipOf(impl, c) ==
  IF impl = "shared"
  THEN ClearResponsible(c) + ClearOwns(c) + ClearWillHandle(c) + ClearResponsibilityOf(c)
  ELSE ClearResponsible(c) + ClearOwns(c)

vagueOwnershipOf(impl, c) ==
  IF impl = "shared" THEN VagueWeWill(c) + VagueWillBe(c) + VagueShouldBe(c)
  ELSE VagueWeWill(c) + VagueWillBe(c)

\* a variant without the fallback for no responsibility statements
scoreOwnershipClarityUnguarded(impl, inputs) ==
  LET clear == SumSeq([k \in 1..Len(inputs) |-> clearOwnershipOf(impl, LowerSeq(inputs[k].content))])
      vague == SumSeq([k \in 1..Len(inputs) |-> vagueOwnershipOf(impl, LowerSeq(inputs[k].content))])
  IN [score |-> JsRoundRatio(clear, clear + vague, 1000),
      details |-> [responsibility_statements |-> clear + vague, clear_owner |-> clear,
                   unclear |-> vague]]
scoreOwnershipClarity(impl, inputs) ==
  LET clear == SumSeq([k \in 1..Len(inputs) |-> clearOwnershipOf(impl, LowerSeq(inputs[k].content))])
      vague == SumSeq([k \in 1..Len(inputs) |-> vagueOwnershipOf(impl, LowerSeq(inputs[k].content))])
      total == clear + vague
  IN [score |-> IF total = 0 THEN 700 ELSE JsRoundRatio(clear, total, 1000),
      details |-> [responsibility_statements |-> total, clear_owner |-> clear, unclear |-> vague]]

\* a variant whose bands exclude their lower bounds
getScoreBandExclusive(score) ==
  IF JsLt(85 * 1000, score) THEN "excellent"
  ELSE IF JsLt(70 * 1000, score) THEN "good"
  ELSE IF JsLt(50 * 1000, score) THEN "at_risk"
  ELSE IF JsLt(30 * 1000, score) THEN "poor"
  ELSE "critical"
\* getScoreBand(score), the score in thousandths
getScoreBand(score) ==
  IF JsGe(score, 85 * 1000) THEN "excellent"
  ELSE IF JsGe(score, 70 * 1000) THEN "good"
  ELSE IF JsGe(score, 50 * 1000) THEN "at_risk"
  ELSE IF JsGe(score, 30 * 1000) THEN "poor"
  ELSE "critical"


(***************************************************************************)
(* The engine: ASPIRE, risk terms, meaning debt, action plan.              *)
(***************************************************************************)
\* a variant that rewards the terms flagged inconsistent
aspireScoreOfFlagged(termAnalyses, category) ==
  LET terms == SelectSeq(termAnalyses, LAMBDA t : t.category = category)
      defined == Len(SelectSeq(terms, LAMBDA t : t.isDefined))
      flagged == Len(SelectSeq(terms, LAMBDA t : t.inconsistencyDetected))
  IN IF Len(terms) = 0 THEN 70
     ELSE JsMin(100, JsRoundRatio(defined + flagged, Len(terms), 50))
\* calc / calcScore of calculateASPIREScores, in whole points
aspireScore(termAnalyses, category) ==
  LET terms == SelectSeq(termAnalyses, LAMBDA t : t.category = category)
      defined == Len(SelectSeq(terms, LAMBDA t : t.isDefined))
      consistent == Len(SelectSeq(terms, LAMBDA t : ~t.inconsistencyDetected))
  IN IF Len(terms) = 0 THEN 70
     ELSE JsMin(100, JsRoundRatio(defined + consistent, Len(terms), 50))

calculateASPIREScores(termAnalyses) ==
  [alignment |-> aspireScore(termAnalyses, OWNERSHIP_TERM),
   strategy |-> aspireScore(termAnalyses, FINANCIAL_STRATEGIC),
   prospecting |-> aspireScore(termAnalyses, PROMISE_WORD),
   integration |-> aspireScore(termAnalyses, LIFECYCLE_VERB),
   relationship |-> aspireScore(termAnalyses, PROMISE_WORD),
   engagement |-> aspireScore(termAnalyses, STATUS_LABEL)]

\* a variant that counts 5 occurrences as frequent
riskScoreOfFrequentFromFive(term) ==
  (IF ~term.isDefined THEN 30 ELSE 0)
    + (IF term.inconsistencyDetected THEN 40 ELSE 0)
    + (IF term.category = PROMISE_WORD THEN 20 ELSE 0)
    + (IF term.occurrences >= 5 THEN 10 ELSE 0)
riskScoreOf(term) ==
  (IF ~term.isDefined THEN 30 ELSE 0)
    + (IF term.inconsistencyDetected THEN 40 ELSE 0)
    + (IF term.category = PROMISE_WORD THEN 20 ELSE 0)
    + (IF term.occurrences > 5 THEN 10 ELSE 0)

riskLevelOf(score) == IF score >= 60 THEN "critical" ELSE IF score >= 40 THEN "high" ELSE "medium"

issueOf(impl, term) ==
  IF impl = "shared"
  THEN (IF ~term.isDefined /\ term.inconsistencyDetected THEN "undefined_and_inconsistent"
        ELSE IF ~term.isDefined THEN "undefined"
        ELSE IF term.inconsistencyDetected THEN "inconsistent_meaning"
        ELSE "high_frequency_undefined")
  ELSE (IF ~term.isDefined THEN "undefined"
        ELSE IF term.inconsistencyDetected THEN "inconsistent_meaning"
        ELSE "high_frequency")

recommendationOf(impl, term) ==
  IF impl = "shared"
  THEN (IF ~term.isDefined /\ term.inconsistencyDetected
          THEN <<"Create single definition with explicit boundaries for", term.term>>
        ELSE IF ~term.isDefined THEN <<"Define with threshold and boundary", term.term>>
        ELSE IF term.inconsistencyDetected
          THEN <<"Standardize meaning across all documents", term.term>>
        ELSE <<"Review usage for clarity", term.term>>)
  ELSE (IF ~term.isDefined THEN <<"Define", term.term>> ELSE <<"Standardize usage", term.term>>)

riskTermOf(impl, term) ==
  LET common == [term |-> term.term,
                 risk_level |-> riskLevelOf(riskScoreOf(term)),
                 category |-> term.category,
                 occurrences |-> term.occurrences,
                 documents |-> term.documents,
                 issue |-> issueOf(impl, term),
                 recommendation |-> recommendationOf(impl, term)]
  IN IF impl = "shared"
     THEN [f \in DOMAIN common \cup {"examples"} |->
             IF f = "examples" THEN Slice(term.contexts, 2) ELSE common[f]]
     ELSE common

riskOrder(level) == CASE level = "critical" -> 0 [] level = "high" -> 1 [] level = "medium" -> 2

\* a variant that compares occurrences only
riskCompareByOccurrences(a, b) == b.occurrences - a.occurrences
\* the comparator of the sort: negative when a goes before b
riskCompare(a, b) ==
  IF riskOrder(a.risk_level) # riskOrder(b.risk_level)
  THEN riskOrder(a.risk_level) - riskOrder(b.risk_level)
  ELSE b.occurrences - a.occurrences

\* Array.prototype.sort is stable: x goes after every element not after it
RECURSIVE SortRisks(_)
SortRisks(risks) ==
  IF risks = <<>> THEN <<>>
  ELSE LET before == SortRisks(SubSeq(risks, 1, Len(risks) - 1))
           last == risks[Len(risks)]
           n == Cardinality({i \in 1..Len(before) : riskCompare(before[i], last) <= 0})
       IN SubSeq(before, 1, n) \o <<last>> \o SubSeq(before, n + 1, Len(before))

identifyHighRiskTerms(impl, termAnalyses) ==
  LET risky == SelectSeq(termAnalyses, LAMBDA t : riskScoreOf(t) >= 30)
      risks == [k \in 1..Len(risky) |-> riskTermOf(impl, risky[k])]
  IN Slice(SortRisks(risks), 10)

\* the quotient and remainder of a * b by d, for a, b >= 0 and d > 0, by
\* doubling (the product itself may exceed the 32-bit range of TLC's integers)
RECURSIVE MulDiv(_, _, _)
MulDiv(a, b, d) ==
  IF b = 0 THEN [q |-> 0, r |-> 0]
  ELSE LET half == MulDiv(a, b \div 2, d)
           twice == [q |-> 2 * half.q + (2 * half.r) \div d, r |-> (2 * half.r) % d]
       IN IF b % 2 = 0 THEN twice
          ELSE [q |-> twice.q + (a \div d) + (twice.r + (a % d)) \div d,
                r |-> (twice.r + (a % d)) % d]

\* Math.round(a * b / d) for a >= 0, d > 0 and even, and any b
RoundMulDiv(a, b, d) ==
  IF b >= 0
  THEN LET x == MulDiv(a, b, d) IN x.q + (IF 2 * x.r >= d THEN 1 ELSE 0)
  ELSE LET x == MulDiv(a, -b, d) IN -(x.q + (IF 2 * x.r > d THEN 1 ELSE 0))

\* a variant that drops the fraction instead of rounding
debtShareTruncated(score, companySize, highRiskCount, percent) ==
  IF ~IsFinite(score) THEN NaN
  ELSE 1000 * MulDiv(companySize * (10 + highRiskCount) * percent, 100000 - score,
                     (1000 * 10 * 100 * 1000) \div (2500 \div 50)).q

\* Math.round(cost * percent / 100 / 1000) * 1000, for
\* cost = companySize * 2500 * ((100 - score) / 50) * (1 + highRiskCount * 0.1)
\* and the score in thousandths; 2500 / 50 is taken out of the divisor
debtShare(score, companySize, highRiskCount, percent) ==
  IF ~IsFinite(score) THEN NaN
  ELSE 1000 * RoundMulDiv(companySize * (10 + highRiskCount) * percent, 100000 - score,
                          (1000 * 10 * 100 * 1000) \div (2500 \div 50))

estimateMeaningDebt(score, companySize, highRiskCount) ==
  [low_estimate |-> debtShare(score, companySize, highRiskCount, 70),
   high_estimate |-> debtShare(score, companySize, highRiskCount, 130),
   currency |-> "USD",
   period |-> "annual",
   breakdown |->
     [rework_misalignment |-> debtShare(score, companySize, highRiskCount, 35),
      client_escalations |-> debtShare(score, companySize, highRiskCount, 20),
      employee_clarification_time |-> debtShare(score, companySize, highRiskCount, 25),
      lost_deals_confusion |-> debtShare(score, companySize, highRiskCount, 20)]]

\* [...components].sort((a, b) => a.score - b.score), stable
RECURSIVE SortByScore(_)
SortByScore(components) ==
  IF components = <<>> THEN <<>>
  ELSE LET before == SortByScore(SubSeq(components, 1, Len(components) - 1))
           last == components[Len(components)]
           n == Cardinality({i \in 1..Len(before) : before[i].score <= last.score})
       IN SubSeq(before, 1, n) \o <<last>> \o SubSeq(before, n + 1, Len(before))

\* a variant that lists 4 inconsistent terms
maxHighImpactFour(impl) == 4

\* the inline engine lists 2 inconsistent terms and one reminder, the shared
\* engine 3 and two
maxHighImpact(impl) == IF impl = "shared" THEN 3 ELSE 2

maintenanceItems(impl) ==
  << [priority |-> "maintenance", action |-> <<"Scan new documents before publishing">>] >>
  \o (IF impl = "shared"
      THEN << [priority |-> "maintenance",
               action |-> <<"Monthly consistency check across document corpus">>] >>
      ELSE <<>>)

generateActionPlan(impl, termAnalyses, components) ==
  LET undefinedHighFreq ==
        Slice(SelectSeq(termAnalyses, LAMBDA t : ~t.isDefined /\ t.occurrences > 3), 3)
      inconsistent ==
        Slice(SelectSeq(termAnalyses, LAMBDA t : t.inconsistencyDetected), maxHighImpact(impl))
      lowComps == SelectSeq(Slice(SortByScore(components), 2), LAMBDA c : JsLt(c.score, 600))
  IN [k \in 1..Len(undefinedHighFreq) |->
        [priority |-> "quick_win",
         action |-> <<"Define", undefinedHighFreq[k].term, undefinedHighFreq[k].occurrences>>]]
     \o [k \in 1..Len(inconsistent) |->
        [priority |-> "high_impact",
         action |-> <<"Standardize", inconsistent[k].term, Len(inconsistent[k].documents)>>]]
     \o [k \in 1..Len(lowComps) |->
        [priority |-> "systemic",
         action |-> <<"Improve", lowComps[k].name, JsRoundTo(lowComps[k].score, 10)>>]]
     \o maintenanceItems(impl)


(***************************************************************************)
(* analyzeContent: the component list and the result record.               *)
(***************************************************************************)
\* a variant whose weights do not add up to 1
WEIGHTSNotNormalised ==
  [definition_coverage |-> 25, consistency |-> 25, boundary_clarity |-> 20,
   threshold_specificity |-> 15, jargon_load |-> 10, ownership_clarity |-> 50]
\* WEIGHTS, in hundredths
WEIGHTS ==
  [definition_coverage |-> 25, consistency |-> 25, boundary_clarity |-> 20,
   threshold_specificity |-> 15, jargon_load |-> 10, ownership_clarity |-> 5]

\* one element of components: weightedScore = score * weight, in thousandths
componentOf(name, scored, weight) ==
  [name |-> name, score |-> scored.score, details |-> scored.details,
   weight |-> weight, weightedScore |-> JsScale(scored.score, weight)]

componentsOf(impl, inputs, termAnalyses) ==
  << componentOf("Definition Coverage", scoreDefinitionCoverage(termAnalyses),
                 WEIGHTS.definition_coverage),
     componentOf("Consistency", scoreConsistency(termAnalyses), WEIGHTS.consistency),
     componentOf("Boundary Clarity", scoreBoundaryClarity(impl, inputs),
                 WEIGHTS.boundary_clarity),
     componentOf("Threshold Specificity", scoreThresholdSpecificity(impl, inputs),
                 WEIGHTS.threshold_specificity),
     componentOf("Jargon Load", scoreJargonLoad(impl, inputs), WEIGHTS.jargon_load),
     componentOf("Ownership Clarity", scoreOwnershipClarity(impl, inputs),
                 WEIGHTS.ownership_clarity) >>

\* a variant that leaves the last component out of the sum
overallScoreOfAllButLast(components) ==
  SumSeq([k \in 1..(Len(components) - 1) |-> components[k].weightedScore])
\* components.reduce((sum, c) => sum + c.weightedScore, 0), in thousandths
overallScoreOf(components) ==
  SumSeq([k \in 1..Len(components) |-> components[k].weightedScore])

\* overall_score: Math.round(overallScore * 10) / 10, in tenths, and
\* score_band: getScoreBand(overallScore)
scoreAndBandOf(overallScore) ==
  [overall_score |-> JsRoundTo(overallScore, 100), score_band |-> getScoreBand(overallScore)]

\* the record analyzeContent returns once analyzeTerms has resolved;
\* timestamp is the reading of new Date()
analysisResult(impl, inputs, companySize, termAnalyses, timestamp) ==
  LET components == componentsOf(impl, inputs, termAnalyses)
      overallScore == overallScoreOf(components)
      highRiskTerms == identifyHighRiskTerms(impl, termAnalyses)
  IN [overall_score |-> scoreAndBandOf(overallScore).overall_score,
      score_band |-> scoreAndBandOf(overallScore).score_band,
      components |-> components,
      aspire_scores |-> calculateASPIREScores(termAnalyses),
      total_terms_analyzed |-> Len(termAnalyses),
      high_risk_terms |-> highRiskTerms,
      meaning_debt |-> estimateMeaningDebt(overallScore, companySize, Len(highRiskTerms)),
      action_plan |-> generateActionPlan(impl, termAnalyses, components),
      documents_analyzed |-> Len(inputs),
      total_word_count |-> totalWordCount(inputs),
      analysis_timestamp |-> timestamp]

(***************************************************************************)
(* The consistency capability (client.messages.create) and its caller.     *)
(***************************************************************************)
\* what one call does once it settles: it replies with the JSON verdict
\* {"inconsistent": true} or {"inconsistent": false}, with text that holds no
\* {...}, with text whose {...} is not JSON, or the promise rejects
CapabilityReplies == {"inconsistent", "consistent", "no_json", "bad_json", "rejects"}

\* text.match(/\{[\s\S]*\}/) finds an object in the reply's text
jsonMatch(reply) == reply \in {"inconsistent", "consistent", "bad_json"}

\* a variant of checkConsistencyAI that reads every failure as an inconsistency
checkConsistencyAIFailClosed(reply) ==
  IF reply = "consistent" THEN [threw |-> FALSE, inconsistent |-> FALSE]
  ELSE [threw |-> FALSE, inconsistent |-> TRUE]
\* checkConsistencyAI after client.messages.create has settled: the value it
\* returns; a rejection and a throw of JSON.parse both land in its catch,
\* which falls through to return { inconsistent: false }
checkConsistencyAI(reply) ==
  IF reply = "rejects" THEN [threw |-> FALSE, inconsistent |-> FALSE]
  ELSE IF jsonMatch(reply)
       THEN IF reply = "bad_json" THEN [threw |-> FALSE, inconsistent |-> FALSE]
            ELSE [threw |-> FALSE, inconsistent |-> (reply = "inconsistent")]
  ELSE [threw |-> FALSE, inconsistent |-> FALSE]

\* the try/catch around the call in analyzeTerms
inconsistencyDetectedOf(result) == IF result.threw THEN FALSE ELSE result.inconsistent

(***************************************************************************)
(* The documents and requests of the model.                                *)
(***************************************************************************)
MaxDocs == 2
MaxClock == 1
MaxRuns == 2

DocPromise == <<"We", "provide", "unlimited", "support", "to", "all", "clients", ".">>
DocDefinition ==
  <<"Support", "means", "responding", "within", "24", "hours", "for", "issues",
    "excluding", "hardware", "failures", ".">>
DocOwnership ==
  <<"The", "PM", "owns", "delivery", ".", "We", "will", "handle", "ROI", "as", "needed", ".">>
DocGlossary ==
  <<"Support", ":", "onboarding", "support", "via", "API", "(", "API", ")", "including",
    "SLA", ".">>
DocEmpty == <<>>

\* the documents a request is made of: a content with the wordCount its
\* source gave it; one document comes without a wordCount (i.wordCount || 0)
SampleDocuments ==
  {[content |-> DocPromise, wordCount |-> 60],
   [content |-> DocDefinition, wordCount |-> 60],
   [content |-> DocOwnership, wordCount |-> 40],
   [content |-> DocOwnership, wordCount |-> 0],
   [content |-> DocGlossary, wordCount |-> 60],
   [content |-> DocEmpty, wordCount |-> 0]}
DocNames == <<"Proposal", "Website", "Transcript", "Notes">>
CompanySizes == {50, 200}

\* the names of n documents: each document has a name of its own, or all have
\* the name of the first document
NameLists(n) ==
  {[i \in 1..n |-> DocNames[i]], [i \in 1..n |-> DocNames[1]]}

\* the document lists of n documents
InputLists(n) ==
  {[i \in 1..n |-> [id |-> i, name |-> names[i], content |-> docs[i].content,
                    wordCount |-> docs[i].wordCount]] :
     names \in NameLists(n), docs \in [1..n -> SampleDocuments]}

Bodies ==
  [hasInputs : {TRUE}, inputs : UNION {InputLists(n) : n \in 0..MaxDocs},
   companySize : CompanySizes, useAI : BOOLEAN]
  \cup [hasInputs : {FALSE}, inputs : {<<>>}, companySize : {50}, useAI : {TRUE}]

Requests ==
  {[httpMethod |-> "POST", body |-> b] : b \in Bodies}
  \cup {[httpMethod |-> "GET", body |-> b] :
          b \in [hasInputs : {FALSE}, inputs : {<<>>}, companySize : {50}, useAI : {TRUE}]}

NoCall == [status |-> "none"]
NoResponse == [statusCode |-> 0]
NoProbe == [kind |-> "none"]

(***************************************************************************)
(* State.                                                                  *)
(***************************************************************************)
VARIABLES
  impl,             \* which copy of the engine runs: "inline" or "shared"
  request,          \* the event the handler received
  apiKey,           \* process.env.ANTHROPIC_API_KEY is set
  pc,               \* where the handler is
  termOccurrences,  \* Object.entries of extractTerms' result
  analyses,         \* the analyses pushed so far by analyzeTerms
  call,             \* the outstanding capability call, with the pending analysis
  capLog,           \* the capability calls of this run, with their replies
  capMemo,          \* the replies the (deterministic) capability has given
  clock,            \* the last reading of the clock
  response,         \* the handler's response
  runs,             \* the number of times the request has been submitted
  prevResponse,     \* the response to the previous submission
  probe             \* the argument and the result of a function applied on its own

vars == <<impl, request, apiKey, pc, termOccurrences, analyses, call, capLog, capMemo,
          clock, response, runs, prevResponse, probe>>

inputs == request.body.inputs
\* useAI && !!anthropicClient, for anthropicClient created when useAI and the key are set
aiAvailable == request.body.useAI /\ apiKey

Init ==
  /\ impl \in {"inline", "shared"}
  /\ request \in Requests
  /\ apiKey \in BOOLEAN
  /\ pc = "received"
  /\ termOccurrences = <<>>
  /\ analyses = <<>>
  /\ call = NoCall
  /\ capLog = <<>>
  /\ capMemo = <<>>
  /\ clock = 0
  /\ response = NoResponse
  /\ runs = 1
  /\ prevResponse = NoResponse
  /\ probe = NoProbe

\* handler: if (event.httpMethod !== 'POST') return 405
RejectMethod ==
  /\ pc = "received"
  /\ request.httpMethod # "POST"
  /\ response' = [statusCode |-> 405, body |-> [error |-> "Method not allowed"]]
  /\ pc' = "responded"
  /\ UNCHANGED <<impl, request, apiKey, termOccurrences, analyses, call, capLog, capMemo,
                 clock, runs, prevResponse, probe>>

\* a variant of the guard that only notices a missing list
noInputsWhenMissing(body) == ~body.hasInputs
\* !inputs || !inputs.length
noInputs(body) == ~body.hasInputs \/ Len(body.inputs) = 0

\* handler: if (!inputs || !inputs.length) return 400
RejectNoInputs ==
  /\ pc = "received"
  /\ request.httpMethod = "POST"
  /\ noInputs(request.body)
  /\ response' = [statusCode |-> 400, body |-> [error |-> "No inputs provided"]]
  /\ pc' = "responded"
  /\ UNCHANGED <<impl, request, apiKey, termOccurrences, analyses, call, capLog, capMemo,
                 clock, runs, prevResponse, probe>>

\* a variant that consults the capability whatever the documents and the
\* availability
needsCapabilityAlways(analysis, available) == Len(analysis.contexts) >= 2
\* documents.length > 1 && useAI && anthropicClient, and checkConsistencyAI
\* has two contexts to compare
needsCapability(analysis, available) ==
  Len(analysis.documents) > 1 /\ available /\ Len(analysis.contexts) >= 2

\* checkConsistencyAI up to its await: the call made for the analysis of
\* entry i, which waits for the reply
callOf(i, analysis) ==
  [status |-> "sent", index |-> i, term |-> analysis.term,
   contextA |-> Slice(analysis.contexts[1], 200),
   contextB |-> Slice(analysis.contexts[2], 200),
   analysis |-> analysis]

\* the loop of analyzeTerms from entry i, run on until an iteration awaits
\* the capability or the loop ends: the analyses pushed and the call made
RECURSIVE analyzeTermsFrom(_, _, _, _, _, _)
\* the iteration for entry i, whose analysis up to the consistency check is
\* given, and the iterations after it
analyzeTermsStep(engine, entries, docs, available, i, done, analysis) ==
  IF needsCapability(analysis, available)
  THEN [analyses |-> done, call |-> callOf(i, analysis)]
  ELSE analyzeTermsFrom(engine, entries, docs, available, i + 1, Append(done, analysis))

analyzeTermsFrom(engine, entries, docs, available, i, done) ==
  IF i > Len(entries) THEN [analyses |-> done, call |-> NoCall]
  ELSE analyzeTermsStep(engine, entries, docs, available, i, done,
                        analyzeTerm(engine, entries[i], docs))

\* a variant in which analyzeTerms returns without awaiting the call it made
loopStopsWithoutAwait(loop) ==
  /\ analyses' = loop.analyses
  /\ call' = loop.call
  /\ pc' = "analyzed"

\* the loop has stopped: at an await, or at its end
loopStops(loop) ==
  /\ analyses' = loop.analyses
  /\ call' = loop.call
  /\ pc' = IF loop.call = NoCall THEN "analyzed" ELSE "awaiting"

\* a variant in which the array lives outside analyzeTerms and is never emptied
analysesKeptAcrossRuns == analyses
\* const analyses = []
newAnalyses == <<>>

\* analyzeTerms(termOccurrences, ...) up to its first await
startLoop(entries) ==
  /\ termOccurrences' = entries
  /\ loopStops(analyzeTermsFrom(impl, entries, inputs, aiAvailable, 1, newAnalyses))

\* handler -> analyzeContent -> extractTerms -> analyzeTerms, up to the first
\* await of client.messages.create or, without one, to the end of the loop
StartAnalysis ==
  /\ pc = "received"
  /\ request.httpMethod = "POST"
  /\ ~noInputs(request.body)
  /\ startLoop(extractTerms(inputs))
  /\ capLog' = <<>>
  /\ UNCHANGED <<impl, request, apiKey, capMemo, clock, response, runs, prevResponse, probe>>

\* the question a call asks
questionOf(c) == [term |-> c.term, contextA |-> c.contextA, contextB |-> c.contextB]
\* the capability is deterministic: the same question gets the same reply
repliesAllowed(c) ==
  LET given == {capMemo[k].reply : k \in {j \in 1..Len(capMemo) : capMemo[j].question = questionOf(c)}}
  IN IF given = {} THEN CapabilityReplies ELSE given

\* the analysis of the pending iteration once the call has settled
settledAnalysis(pending, reply) ==
  [pending EXCEPT !.inconsistencyDetected = inconsistencyDetectedOf(checkConsistencyAI(reply))]

\* the capability remembers the reply it gave to a question
remember(question, reply) ==
  IF \E k \in 1..Len(capMemo) : capMemo[k].question = question THEN capMemo
  ELSE Append(capMemo, [question |-> question, reply |-> reply])

\* client.messages.create settles: checkConsistencyAI returns, the iteration
\* pushes its analysis and the loop runs on to the next await or to its end
CapabilitySettles ==
  /\ pc = "awaiting"
  /\ call.status = "sent"
  /\ \E reply \in repliesAllowed(call) :
       /\ loopStops(analyzeTermsFrom(impl, termOccurrences, inputs, aiAvailable,
                                     call.index + 1,
                                     Append(analyses, settledAnalysis(call.analysis, reply))))
       /\ capLog' = Append(capLog, [question |-> questionOf(call), reply |-> reply])
       /\ capMemo' = remember(questionOf(call), reply)
  /\ UNCHANGED <<impl, request, apiKey, termOccurrences, clock, response, runs,
                 prevResponse, probe>>

\* client.messages.create never settles; the code sets no timer on it, so
\* the await in checkConsistencyAI never resumes
CapabilityNeverSettles ==
  /\ pc = "awaiting"
  /\ call.status = "sent"
  /\ repliesAllowed(call) = CapabilityReplies
  /\ call' = [call EXCEPT !.status = "unanswered"]
  /\ UNCHANGED <<impl, request, apiKey, pc, termOccurrences, analyses, capLog, capMemo,
                 clock, response, runs, prevResponse, probe>>

\* analyzeTerms has returned: the scorers run, the result is assembled with
\* the reading of the clock and the handler responds 200
Respond ==
  /\ pc = "analyzed"
  /\ response' = [statusCode |-> 200,
                  body |-> analysisResult(impl, inputs, request.body.companySize,
                                          analyses, clock)]
  /\ pc' = "responded"
  /\ UNCHANGED <<impl, request, apiKey, termOccurrences, analyses, call, capLog, capMemo,
                 clock, runs, prevResponse, probe>>

\* the caller submits the same request again, at once or later; what the
\* first invocation left behind is out of the reach of the second
Resubmit ==
  /\ pc = "responded"
  /\ runs < MaxRuns
  /\ runs' = runs + 1
  /\ \E later \in clock..MaxClock : clock' = later
  /\ prevResponse' = response
  /\ response' = NoResponse
  /\ pc' = "received"
  /\ UNCHANGED <<impl, request, apiKey, termOccurrences, analyses, call, capLog, capMemo,
                 probe>>

\* one invocation of the handler
Next ==
  \/ RejectMethod
  \/ RejectNoInputs
  \/ StartAnalysis
  \/ CapabilitySettles
  \/ CapabilityNeverSettles
  \/ Respond

Spec == Init /\ [][Next]_vars

\* the same request submitted up to MaxRuns times
NextRerun ==
  \/ Next
  \/ Resubmit

SpecRerun == Init /\ [][NextRerun]_vars

(***************************************************************************)
(* Functions applied on their own.  The handler's variables stay idle.     *)
(***************************************************************************)
Idle ==
  /\ impl = "inline"
  /\ request = [httpMethod |-> "GET",
                body |-> [hasInputs |-> FALSE, inputs |-> <<>>, companySize |-> 50,
                          useAI |-> TRUE]]
  /\ apiKey = FALSE
  /\ pc = "idle"
  /\ termOccurrences = <<>>
  /\ analyses = <<>>
  /\ call = NoCall
  /\ capLog = <<>>
  /\ capMemo = <<>>
  /\ clock = 0
  /\ response = NoResponse
  /\ runs = 1
  /\ prevResponse = NoResponse

\* getScoreBand on its own.  Scores are in thousandths: every tenth from -1.0
\* to MaxBandScore tenths, and the thousandths next to each boundary
MaxBandScore == 1010
BandBoundaries == {30, 50, 70, 85}
BandScores ==
  {100 * t : t \in (0 - 10)..MaxBandScore}
    \cup {1000 * b - 1 : b \in BandBoundaries} \cup {1000 * b + 1 : b \in BandBoundaries}

InitBand ==
  /\ Idle
  /\ probe \in {[kind |-> "band", score |-> s, band |-> "pending"] : s \in BandScores}

ApplyGetScoreBand ==
  /\ probe.kind = "band"
  /\ probe.band = "pending"
  /\ probe' = [probe EXCEPT !.band = getScoreBand(probe.score)]
  /\ UNCHANGED <<impl, request, apiKey, pc, termOccurrences, analyses, call, capLog, capMemo,
                 clock, response, runs, prevResponse>>

NextBand == ApplyGetScoreBand

SpecBand == InitBand /\ [][NextBand]_vars

\* scoreDefinitionCoverage on its own, over up to MaxProbeTerms term analyses
\* of every category and definition quality
MaxProbeTerms == 3
DefinitionQualities == {"complete", "partial", "minimal", "missing"}

\* the fields of an analysis as analyzeTerms sets them for a category and a
\* definition quality
probeAnalysis(category, quality) ==
  [category |-> category,
   riskMultiplier |-> getRiskMultiplier(category),
   isDefined |-> quality # "missing",
   definitionQuality |-> quality]

ProbeAnalyses == {probeAnalysis(c, q) : c \in TermCategory, q \in DefinitionQualities}

InitCoverage ==
  /\ Idle
  /\ \E n \in 0..MaxProbeTerms :
       probe \in {[kind |-> "coverage", terms |-> t, before |-> t, defined |-> 0] :
                    t \in [1..n -> ProbeAnalyses]}

\* one term that had no definition gets a complete one
DefineOneTerm ==
  /\ probe.kind = "coverage"
  /\ \E i \in 1..Len(probe.terms) :
       /\ probe.terms[i].definitionQuality = "missing"
       /\ probe' = [kind |-> "coverage",
                    terms |-> [probe.terms EXCEPT
                                 ![i] = probeAnalysis(probe.terms[i].category, "complete")],
                    before |-> probe.terms,
                    defined |-> i]
  /\ UNCHANGED <<impl, request, apiKey, pc, termOccurrences, analyses, call, capLog, capMemo,
                 clock, response, runs, prevResponse>>

NextCoverage == DefineOneTerm

SpecCoverage == InitCoverage /\ [][NextCoverage]_vars

(***************************************************************************)
(* Properties.                                                             *)
(***************************************************************************)
\* the handler has answered 200 with an analysis result
Completed == pc = "responded" /\ response.statusCode = 200
result == response.body
scoresOf(r) == [k \in 1..Len(r.components) |-> r.components[k].score]
MinOf(s) == CHOOSE x \in Range(s) : \A y \in Range(s) : x <= y
MaxOf(s) == CHOOSE x \in Range(s) : \A y \in Range(s) : x >= y

\* C1: in every analysis result the six weights are 0.25, 0.25, 0.20, 0.15,
\* 0.10 and 0.05 in the order of the components and add up to 1, every
\* weightedScore is score * weight, and overall_score is the sum of the six
\* weighted scores rounded to one decimal
OverallIsWeightedSum ==
  Completed =>
    LET c == result.components
    IN /\ [k \in 1..Len(c) |-> c[k].name]
            = <<"Definition Coverage", "Consistency", "Boundary Clarity",
                "Threshold Specificity", "Jargon Load", "Ownership Clarity">>
       /\ [k \in 1..Len(c) |-> c[k].weight] = <<25, 25, 20, 15, 10, 5>>
       /\ SumSeq([k \in 1..Len(c) |-> c[k].weight]) = 100
       /\ \A k \in 1..Len(c) : c[k].weightedScore = c[k].score * c[k].weight
       /\ 100 * result.overall_score - 50
            <= SumSeq([k \in 1..Len(c) |-> c[k].score * c[k].weight])
       /\ SumSeq([k \in 1..Len(c) |-> c[k].score * c[k].weight])
            < 100 * result.overall_score + 50

\* a result whose six scores differ and whose weighted sum is not a whole
\* number of tenths, so that the rounding shows
OverallIsWeightedSumWitness ==
  /\ Completed
  /\ Cardinality(Range(scoresOf(result))) >= 5
  /\ SumSeq([k \in 1..6 |-> result.components[k].weightedScore]) % 100 # 0

\* C2: in every analysis result overall_score lies between the smallest and
\* the largest of the six component scores of that result
OverallWithinComponents ==
  Completed =>
    /\ MinOf(scoresOf(result)) <= result.overall_score
    /\ result.overall_score <= MaxOf(scoresOf(result))

\* a result whose overall score lies strictly between the two
OverallWithinComponentsWitness ==
  /\ Completed
  /\ MinOf(scoresOf(result)) < result.overall_score
  /\ result.overall_score < MaxOf(scoresOf(result))
  /\ MinOf(scoresOf(result)) = 0

\* C3: for every non-empty document set and every behaviour of the
\* capability, the Definition Coverage, Consistency, Boundary Clarity,
\* Threshold Specificity and Ownership Clarity scores lie in [0, 100] and the
\* Jargon Load score is one of 30, 50, 70, 85, 95, 80
ComponentScoresInRange ==
  Completed =>
    /\ \A k \in {1, 2, 3, 4, 6} :
         /\ IsFinite(result.components[k].score)
         /\ 0 <= result.components[k].score
         /\ result.components[k].score <= 1000
    /\ result.components[5].score \in {300, 500, 700, 850, 950, 800}

\* a result after capability calls, with more boundary signals than promises
\* (the cap of Boundary Clarity acts) and a score at each end of the range
ComponentScoresInRangeWitness ==
  /\ Completed
  /\ capLog # <<>>
  /\ result.components[3].details.boundary_signals
       > result.components[3].details.promises_found
  /\ result.components[3].details.promises_found > 0
  /\ result.components[3].score = 1000
  /\ result.components[2].score = 0

\* C4: getScoreBand gives every score exactly one band, each band including
\* its lower bound: excellent from 85, good from 70 to under 85, at_risk from
\* 50 to under 70, poor from 30 to under 50, critical under 30; 85 is
\* excellent, 84.9 good, 50 at_risk and 49.9 poor
BandsAreLowerInclusive ==
  (probe.kind = "band" /\ probe.band # "pending") =>
    /\ probe.band \in {"excellent", "good", "at_risk", "poor", "critical"}
    /\ (probe.band = "excellent") <=> (probe.score >= 85000)
    /\ (probe.band = "good") <=> (70000 <= probe.score /\ probe.score < 85000)
    /\ (probe.band = "at_risk") <=> (50000 <= probe.score /\ probe.score < 70000)
    /\ (probe.band = "poor") <=> (30000 <= probe.score /\ probe.score < 50000)
    /\ (probe.band = "critical") <=> (probe.score < 30000)
    /\ probe.score = 85000 => probe.band = "excellent"
    /\ probe.score = 84900 => probe.band = "good"
    /\ probe.score = 50000 => probe.band = "at_risk"
    /\ probe.score = 49900 => probe.band = "poor"

\* getScoreBand has been applied to 84.9
BandsAreLowerInclusiveWitness ==
  probe.kind = "band" /\ probe.score = 84900 /\ probe.band = "good"

\* the same request has been answered 200 twice
AnsweredTwice == runs >= 2 /\ Completed /\ prevResponse.statusCode = 200

\* C5, as claimed: two runs on the same documents and companySize with a
\* deterministic capability give results identical in every field, the
\* timestamp included
RerunIsIdentical == AnsweredTwice => response.body = prevResponse.body

\* C5, amended: two runs on the same documents and companySize with a
\* deterministic capability give results identical in every field but
\* analysis_timestamp, which is the time of each run
RerunIsIdenticalButTimestamp ==
  AnsweredTwice =>
    [response.body EXCEPT !.analysis_timestamp = 0]
      = [prevResponse.body EXCEPT !.analysis_timestamp = 0]

\* two runs at different times, with capability calls one of which found an
\* inconsistency
RerunIsIdenticalButTimestampWitness ==
  /\ AnsweredTwice
  /\ response.body.analysis_timestamp # prevResponse.body.analysis_timestamp
  /\ response.body.total_terms_analyzed >= 2
  /\ \E j \in 1..Len(capLog) : capLog[j].reply = "inconsistent"
  /\ \E j \in 1..Len(capLog) : capLog[j].reply = "no_json"

\* C6: a POST whose inputs are missing or empty is answered 400 at once, with
\* no partial result: no extraction, no scoring, no capability call
InvalidInputRejected ==
  (request.httpMethod = "POST" /\ (~request.body.hasInputs \/ Len(inputs) = 0)) =>
    /\ pc \in {"received", "responded"}
    /\ pc = "responded" =>
         response = [statusCode |-> 400, body |-> [error |-> "No inputs provided"]]
    /\ termOccurrences = <<>>
    /\ analyses = <<>>
    /\ call = NoCall
    /\ capLog = <<>>
    /\ capMemo = <<>>

\* a POST with an empty list has been answered
InvalidInputRejectedWitness ==
  /\ request.httpMethod = "POST"
  /\ request.body.hasInputs
  /\ Len(inputs) = 0
  /\ pc = "responded"
  /\ response.statusCode = 400

FailedReplies == {"no_json", "bad_json", "rejects"}

\* C7: when the capability fails for a term (the call rejects or throws, or
\* its text holds no JSON that parses), the term's inconsistencyDetected is
\* false, nothing propagates, and the analysis completes with a result that
\* covers every term, the others with the verdicts the capability gave
CapabilityFailsOpen ==
  /\ response.statusCode # 500
  /\ \A j \in 1..Len(capLog) :
       \E k \in 1..Len(analyses) :
         /\ analyses[k].term = capLog[j].question.term
         /\ capLog[j].reply \in FailedReplies => analyses[k].inconsistencyDetected = FALSE
         /\ capLog[j].reply = "inconsistent" => analyses[k].inconsistencyDetected = TRUE
  /\ (pc = "responded" /\ \E j \in 1..Len(capLog) : capLog[j].reply \in FailedReplies) =>
       /\ response.statusCode = 200
       /\ result.total_terms_analyzed = Len(termOccurrences)
       /\ [k \in 1..Len(analyses) |-> analyses[k].term]
            = [k \in 1..Len(termOccurrences) |-> termOccurrences[k].term]

\* a completed analysis in which one call failed and another found an
\* inconsistency
CapabilityFailsOpenWitness ==
  /\ Completed
  /\ \E j \in 1..Len(capLog) : capLog[j].reply = "rejects"
  /\ \E j \in 1..Len(capLog) : capLog[j].reply = "inconsistent"
  /\ result.components[2].details.inconsistent = 1
  /\ result.components[2].details.consistent >= 1

\* C8: every invocation returns a result even when a capability call never
\* responds, the call being bounded by a timeout after which the term counts
\* as consistent and the analysis goes on: an analysis that waits for the
\* capability can always take a further step
AnalysisAlwaysReturns == pc = "awaiting" => ENABLED Next

\* C9: for every non-empty document set, degenerate ones included, every
\* numeric field of the result (component scores, weighted scores, overall
\* score, ASPIRE scores, cost estimates and breakdown) is a finite number
IsNumber(x) == x \in Int /\ IsFinite(x)
AllNumbersFinite ==
  Completed =>
    /\ IsNumber(result.overall_score)
    /\ \A k \in 1..Len(result.components) :
         /\ IsNumber(result.components[k].score)
         /\ IsNumber(result.components[k].weightedScore)
         /\ \A f \in DOMAIN result.components[k].details :
              IsNumber(result.components[k].details[f])
    /\ \A f \in DOMAIN result.aspire_scores : IsNumber(result.aspire_scores[f])
    /\ IsNumber(result.meaning_debt.low_estimate)
    /\ IsNumber(result.meaning_debt.high_estimate)
    /\ \A f \in DOMAIN result.meaning_debt.breakdown :
         IsNumber(result.meaning_debt.breakdown[f])
    /\ IsNumber(result.total_terms_analyzed)
    /\ IsNumber(result.documents_analyzed)
    /\ IsNumber(result.total_word_count)

\* a result for documents with no words, no catalog term, no promise and no
\* responsibility statement
AllNumbersFiniteWitness ==
  /\ Completed
  /\ Len(inputs) = MaxDocs
  /\ \A k \in 1..Len(inputs) : inputs[k].content = <<>>
  /\ result.total_word_count = 0
  /\ result.total_terms_analyzed = 0
  /\ result.components[3].details.promises_found = 0
  /\ result.components[6].details.responsibility_statements = 0

\* C10: giving one term that had no definition a complete one, the other
\* term analyses unchanged, never lowers the Definition Coverage score
CoverageIsMonotonic ==
  (probe.kind = "coverage" /\ probe.defined > 0) =>
    JsGe(scoreDefinitionCoverage(probe.terms).score,
         scoreDefinitionCoverage(probe.before).score)

\* three terms, one of them just defined, one still without a definition and
\* one partly defined, and the score has risen
CoverageIsMonotonicWitness ==
  /\ probe.kind = "coverage"
  /\ probe.defined > 0
  /\ Len(probe.terms) = 3
  /\ probe.before[probe.defined].definitionQuality = "missing"
  /\ probe.terms[probe.defined].definitionQuality = "complete"
  /\ \E k \in 1..3 : probe.terms[k].definitionQuality = "missing"
  /\ \E k \in 1..3 : probe.terms[k].definitionQuality = "partial"
  /\ scoreDefinitionCoverage(probe.terms).score > scoreDefinitionCoverage(probe.before).score

(***************************************************************************)
(* The consumers of analyzeTerms' list on their own: identifyHighRiskTerms,*)
(* calculateASPIREScores and generateActionPlan, over lists of term        *)
(* analyses in which two analyses of any shape alternate, up to            *)
(* MaxTermList analyses, which is more than any of the three lets through. *)
(***************************************************************************)
MaxTermList == 11
\* every combination the risk score tells apart, every category, and
\* the occurrence counts on either side of the quick-win threshold
TermShapes ==
  [category : {PROMISE_WORD, GENERAL}, isDefined : BOOLEAN,
   inconsistencyDetected : BOOLEAN, occurrences : {1, 5, 6}]
  \cup [category : TermCategory, isDefined : BOOLEAN,
        inconsistencyDetected : BOOLEAN, occurrences : {1}]
  \cup [category : {GENERAL}, isDefined : {FALSE},
        inconsistencyDetected : {FALSE}, occurrences : {3, 4}]

\* the analysis analyzeTerms pushes for the k-th term, of the given shape;
\* the term is named by its place in the list
termOfShape(shape, k) ==
  [term |-> k,
   category |-> shape.category,
   riskMultiplier |-> getRiskMultiplier(shape.category),
   occurrences |-> shape.occurrences,
   documents |-> IF shape.inconsistencyDetected THEN <<"Proposal", "Website">>
                 ELSE <<"Proposal">>,
   isDefined |-> shape.isDefined,
   definitionQuality |-> IF shape.isDefined THEN "minimal" ELSE "missing",
   hasThreshold |-> FALSE,
   hasBoundary |-> FALSE,
   contexts |-> <<>>,
   inconsistencyDetected |-> shape.inconsistencyDetected]

shapeOf(t) ==
  [category |-> t.category, isDefined |-> t.isDefined,
   inconsistencyDetected |-> t.inconsistencyDetected, occurrences |-> t.occurrences]

\* component scores, in tenths: none under 60; one under 60; five under 60,
\* the two lowest last; two equal lowest scores; a weighted sum of 84.99
ComponentScoreLists ==
  { <<1000, 1000, 600, 1000, 1000, 1000>>,
    <<850, 850, 850, 850, 850, 848>>,
    <<700, 599, 800, 900, 1000, 650>>,
    <<590, 1000, 450, 599, 300, 0>>,
    <<200, 1000, 200, 1000, 200, 1000>> }

\* the components analyzeContent builds, with the given scores
componentsWith(scores) ==
  << componentOf("Definition Coverage", [score |-> scores[1], details |-> <<>>],
                 WEIGHTS.definition_coverage),
     componentOf("Consistency", [score |-> scores[2], details |-> <<>>], WEIGHTS.consistency),
     componentOf("Boundary Clarity", [score |-> scores[3], details |-> <<>>],
                 WEIGHTS.boundary_clarity),
     componentOf("Threshold Specificity", [score |-> scores[4], details |-> <<>>],
                 WEIGHTS.threshold_specificity),
     componentOf("Jargon Load", [score |-> scores[5], details |-> <<>>], WEIGHTS.jargon_load),
     componentOf("Ownership Clarity", [score |-> scores[6], details |-> <<>>],
                 WEIGHTS.ownership_clarity) >>

InitTermList ==
  /\ Idle
  /\ probe \in [kind : {"terms"}, engine : {"inline", "shared"}, terms : {<<>>},
                components : {componentsWith(scores) : scores \in ComponentScoreLists}]

\* one more term analysis: the first two of any shape, then the two in turn
AppendTermAnalysis ==
  /\ probe.kind = "terms"
  /\ Len(probe.terms) < MaxTermList
  /\ \E shape \in TermShapes :
       /\ Len(probe.terms) >= 2 => shape = shapeOf(probe.terms[Len(probe.terms) - 1])
       /\ probe' = [probe EXCEPT
                      !.terms = Append(@, termOfShape(shape, Len(probe.terms) + 1))]
  /\ UNCHANGED <<impl, request, apiKey, pc, termOccurrences, analyses, call, capLog, capMemo,
                 clock, response, runs, prevResponse>>

SpecTermList == InitTermList /\ [][AppendTermAnalysis]_vars

\* the risk score, the level and the rank of a level, as stated
StatedRiskScore(t) ==
  (IF t.isDefined THEN 0 ELSE 30) + (IF t.inconsistencyDetected THEN 40 ELSE 0)
    + (IF t.category = "promise_word" THEN 20 ELSE 0) + (IF t.occurrences > 5 THEN 10 ELSE 0)
StatedRiskLevel(t) ==
  IF StatedRiskScore(t) >= 60 THEN "critical"
  ELSE IF StatedRiskScore(t) >= 40 THEN "high" ELSE "medium"
StatedRank(t) ==
  IF StatedRiskLevel(t) = "critical" THEN 0 ELSE IF StatedRiskLevel(t) = "high" THEN 1 ELSE 2
\* a goes strictly before b in the stated ordering
StrictlyBefore(a, b) ==
  \/ StatedRank(a) < StatedRank(b)
  \/ StatedRank(a) = StatedRank(b) /\ a.occurrences > b.occurrences
probeRisks == identifyHighRiskTerms(probe.engine, probe.terms)
probeCandidates == {k \in 1..Len(probe.terms) : StatedRiskScore(probe.terms[k]) >= 30}

\* R holds the first 10 of the candidates C among the terms T, in the
\* stated ordering
RisksRankedIn(T, R, C) ==
  /\ Len(R) <= 10
  /\ Len(R) = Min2(10, Cardinality(C))
  /\ \A i \in 1..Len(R) :
       /\ R[i].term \in C
       /\ R[i].risk_level = StatedRiskLevel(T[R[i].term])
       /\ R[i].occurrences = T[R[i].term].occurrences
  /\ \A i, j \in 1..Len(R) : i < j =>
       /\ R[i].term # R[j].term
       /\ ~StrictlyBefore(T[R[j].term], T[R[i].term])
  /\ \A c \in C :
       (\A i \in 1..Len(R) : R[i].term # c) =>
         \A i \in 1..Len(R) : ~StrictlyBefore(T[c], T[R[i].term])

\* C11: identifyHighRiskTerms returns at most 10 risk terms, every critical
\* term before every high term and every high term before every medium term
\* whatever their occurrence counts, terms of one level by occurrence count
\* descending; the list is the first 10 of that ordering of all candidates
RisksRankedAndTruncated ==
  probe.kind = "terms" => RisksRankedIn(probe.terms, probeRisks, probeCandidates)

\* eleven candidates, a high term with 6 occurrences first and a critical
\* term with 5 second: ten are returned, the critical ones first
RisksRankedAndTruncatedWitness ==
  /\ probe.kind = "terms"
  /\ Len(probe.terms) = 11
  /\ Cardinality(probeCandidates) = 11
  /\ Len(probeRisks) = 10
  /\ StatedRiskLevel(probe.terms[1]) = "high" /\ probe.terms[1].occurrences = 6
  /\ StatedRiskLevel(probe.terms[2]) = "critical" /\ probe.terms[2].occurrences = 5
  /\ probeRisks[1].risk_level = "critical"
  /\ probeRisks[5].term = 10
  /\ probeRisks[6].term = 1
  /\ probeRisks[10].risk_level = "high"

\* the terms T are scored as stated and, when no more than 10, are among the
\* risks R exactly when the stated score is at least 30, at the stated level
RiskScoreAndLevelIn(T, R) ==
  \A k \in 1..Len(T) :
    /\ riskScoreOf(T[k]) = StatedRiskScore(T[k])
    /\ Len(T) <= 10 =>
         /\ (\E i \in 1..Len(R) : R[i].term = k) <=> StatedRiskScore(T[k]) >= 30
         /\ \A i \in 1..Len(R) :
              R[i].term = k => R[i].risk_level = StatedRiskLevel(T[k])

\* C17: the risk score of a term analysis is +30 if undefined, +40 if an
\* inconsistency was detected, +20 if the category is PromiseWord, +10 if it
\* occurs more than 5 times; the term is a candidate risk term exactly when
\* the score is at least 30, critical from 60, high from 40 to under 60,
\* medium otherwise
RiskScoreAndLevel ==
  probe.kind = "terms" => RiskScoreAndLevelIn(probe.terms, probeRisks)

\* a defined, consistent PromiseWord term with 5 occurrences (score 20) is
\* left out, and an undefined PromiseWord term with 6 (score 60) is critical
RiskScoreAndLevelWitness ==
  /\ probe.kind = "terms"
  /\ Len(probe.terms) = 2
  /\ shapeOf(probe.terms[1])
       = [category |-> "promise_word", isDefined |-> TRUE,
          inconsistencyDetected |-> FALSE, occurrences |-> 5]
  /\ shapeOf(probe.terms[2])
       = [category |-> "promise_word", isDefined |-> FALSE,
          inconsistencyDetected |-> FALSE, occurrences |-> 6]
  /\ Len(probeRisks) = 1
  /\ probeRisks[1].term = 2
  /\ probeRisks[1].risk_level = "critical"

(***************************************************************************)
(* estimateMeaningDebt on its own, over overall scores (in thousandths),   *)
(* company sizes and numbers of high-risk terms.                           *)
(***************************************************************************)
DebtScores == {0, 1, 12345, 49999, 50000, 77340, 99960, 99999, 100000}
DebtCompanySizes == {1, 50, 200}
DebtRiskCounts == 0..10
NoDebt == [low_estimate |-> "none"]

InitDebt ==
  /\ Idle
  /\ probe \in [kind : {"debt"}, score : DebtScores, companySize : DebtCompanySizes,
                highRiskCount : DebtRiskCounts, debt : {NoDebt}]

ApplyEstimateMeaningDebt ==
  /\ probe.kind = "debt"
  /\ probe.debt = NoDebt
  /\ probe' = [probe EXCEPT
                 !.debt = estimateMeaningDebt(probe.score, probe.companySize,
                                              probe.highRiskCount)]
  /\ UNCHANGED <<impl, request, apiKey, pc, termOccurrences, analyses, call, capLog, capMemo,
                 clock, response, runs, prevResponse>>

SpecDebt == InitDebt /\ [][ApplyEstimateMeaningDebt]_vars

\* estimate is a multiple of 1000 within 500 of cost * tenths / 10, where
\* cost = companySize * 2500 * ((100 - score) / 50) * (1 + 0.1 * riskTermCount):
\* with x = companySize * (10 + riskTermCount) and d = 100000 - score in
\* thousandths, cost * tenths / 10 = x * d * tenths / 2000000 thousands
NearestThousand(estimate, x, d, tenths) ==
  /\ estimate % 1000 = 0
  /\ LET whole == (x * d) \div 2000000
         rest == (x * d) % 2000000
         off == 2000000 * (estimate \div 1000 - whole * tenths) - rest * tenths
     IN off <= 1000000 /\ off >= -1000000

\* C12: estimateMeaningDebt computes cost = companySize * 2500 *
\* ((100 - overallScore) / 50) * (1 + 0.1 * riskTermCount) and returns
\* low = cost * 0.7 and high = cost * 1.3, each rounded to the nearest 1000;
\* for overallScore 100, companySize 50 and no risk term both are 0
DebtEstimatesAsStated ==
  (probe.kind = "debt" /\ probe.debt # NoDebt) =>
    LET x == probe.companySize * (10 + probe.highRiskCount)
        d == 100000 - probe.score
    IN /\ NearestThousand(probe.debt.low_estimate, x, d, 7)
       /\ NearestThousand(probe.debt.high_estimate, x, d, 13)
       /\ (probe.score = 100000 /\ probe.companySize = 50 /\ probe.highRiskCount = 0) =>
            (probe.debt.low_estimate = 0 /\ probe.debt.high_estimate = 0)

\* 200 employees, score 77.34 and 3 risk terms: cost 294580, estimates
\* 206000 (from 206206) and 383000 (from 382954)
DebtEstimatesAsStatedWitness ==
  /\ probe.kind = "debt"
  /\ probe.score = 77340 /\ probe.companySize = 200 /\ probe.highRiskCount = 3
  /\ probe.debt # NoDebt
  /\ probe.debt.low_estimate = 206000
  /\ probe.debt.high_estimate = 383000

\* the category each ASPIRE dimension is computed from
DimensionCategory ==
  [alignment |-> "ownership_term", strategy |-> "financial_strategic",
   prospecting |-> "promise_word", integration |-> "lifecycle_verb",
   relationship |-> "promise_word", engagement |-> "status_label"]
TermsOfCategory(T, category) == {k \in 1..Len(T) : T[k].category = category}
\* 50 * defined + 50 * not flagged inconsistent, over the terms of a category:
\* the stated blend times the number of those terms
BlendTimesCount(T, category) ==
  50 * Cardinality({k \in TermsOfCategory(T, category) : T[k].isDefined})
    + 50 * Cardinality({k \in TermsOfCategory(T, category) : ~T[k].inconsistencyDetected})
\* the scores A of the terms T are the stated blend exactly
AspireIsBlendIn(T, A) ==
  /\ \A dim \in DOMAIN DimensionCategory :
       LET n == Cardinality(TermsOfCategory(T, DimensionCategory[dim]))
       IN IF n = 0 THEN A[dim] = 70
          ELSE /\ A[dim] <= 100
               /\ n * A[dim] = BlendTimesCount(T, DimensionCategory[dim])
  /\ A.prospecting = A.relationship
\* the scores A of the terms T are the stated blend rounded to the nearest
\* integer, a half upward
AspireIsRoundedBlendIn(T, A) ==
  /\ \A dim \in DOMAIN DimensionCategory :
       LET n == Cardinality(TermsOfCategory(T, DimensionCategory[dim]))
           off == 2 * n * A[dim] - 2 * BlendTimesCount(T, DimensionCategory[dim])
       IN IF n = 0 THEN A[dim] = 70
          ELSE A[dim] <= 100 /\ off > -n /\ off <= n
  /\ A.prospecting = A.relationship

\* C18 as stated: each of the six ASPIRE dimension scores equals
\* min(100, 50 * (fraction of the category's terms that are defined)
\* + 50 * (fraction not flagged inconsistent)), or 70 when the category has
\* no terms; Prospecting and Relationship are always equal
AspireIsBlend ==
  probe.kind = "terms" => AspireIsBlendIn(probe.terms, calculateASPIREScores(probe.terms))

\* C18, amended: each of the six ASPIRE dimension scores equals that blend
\* rounded to the nearest integer, or 70 when the category has no terms;
\* Prospecting and Relationship are always equal
AspireIsRoundedBlend ==
  probe.kind = "terms" =>
    AspireIsRoundedBlendIn(probe.terms, calculateASPIREScores(probe.terms))

\* three PromiseWord terms, two of them defined, none flagged: the blend is
\* 83.33 and Prospecting and Relationship are 83; no ownership term, 70
AspireIsRoundedBlendWitness ==
  /\ probe.kind = "terms"
  /\ Len(probe.terms) = 3
  /\ \A k \in 1..3 : probe.terms[k].category = "promise_word"
                     /\ ~probe.terms[k].inconsistencyDetected
  /\ probe.terms[1].isDefined /\ ~probe.terms[2].isDefined
  /\ calculateASPIREScores(probe.terms).prospecting = 83
  /\ calculateASPIREScores(probe.terms).relationship = 83
  /\ calculateASPIREScores(probe.terms).alignment = 70

PriorityRank(priority) ==
  CASE priority = "quick_win" -> 0
    [] priority = "high_impact" -> 1
    [] priority = "systemic" -> 2
    [] priority = "maintenance" -> 3
ItemsOf(P, priority) == SelectSeq(P, LAMBDA item : item.priority = priority)
\* the items name, in order, the first terms of the set U of places in the
\* list of term analyses
FirstOf(items, U) ==
  \A i \in 1..Len(items) :
    /\ items[i].action[2] \in U
    /\ Cardinality({u \in U : u < items[i].action[2]}) = i - 1
\* P is the stated plan for the term analyses T and the components C
PlanAsStatedIn(T, C, P) ==
  LET quick == ItemsOf(P, "quick_win")
      impact == ItemsOf(P, "high_impact")
      systemic == ItemsOf(P, "systemic")
      maintenance == ItemsOf(P, "maintenance")
      undefinedFrequent == {k \in 1..Len(T) : ~T[k].isDefined /\ T[k].occurrences > 3}
      inconsistent == {k \in 1..Len(T) : T[k].inconsistencyDetected}
      low == {k \in 1..Len(C) : C[k].score < 600}
      listed == {k \in 1..Len(C) : \E i \in 1..Len(systemic) : systemic[i].action[2] = C[k].name}
  IN /\ Len(P) >= 1
     /\ \A i, j \in 1..Len(P) : i < j => PriorityRank(P[i].priority) <= PriorityRank(P[j].priority)
     /\ Len(quick) = Min2(3, Cardinality(undefinedFrequent))
     /\ FirstOf(quick, undefinedFrequent)
     /\ Len(impact) <= 3
     /\ Len(impact) >= Min2(2, Cardinality(inconsistent))
     /\ FirstOf(impact, inconsistent)
     /\ Len(systemic) = Min2(2, Cardinality(low))
     /\ Cardinality(listed) = Len(systemic)
     /\ listed \subseteq low
     /\ \A c \in listed : \A d \in (1..Len(C)) \ listed : C[c].score <= C[d].score
     /\ Len(maintenance) >= 1
     /\ P[Len(P)].priority = "maintenance"
     /\ maintenance[1].action = <<"Scan new documents before publishing">>
     /\ \A i \in 1..Len(maintenance) :
          maintenance[i].action \in {<<"Scan new documents before publishing">>,
                                     <<"Monthly consistency check across document corpus">>}

\* C20: the action plan is never empty and lists its items in the order
\* quick_win, high_impact, systemic, maintenance: at most 3 quick wins (the
\* first undefined terms with more than 3 occurrences, in term-analysis
\* order), at most 3 high-impact items (terms with a detected inconsistency),
\* at most 2 systemic items (only the two lowest-scoring components, each
\* only if its score is under 60), and the fixed maintenance reminders last
PlanAsStated ==
  probe.kind = "terms" =>
    PlanAsStatedIn(probe.terms, probe.components,
                   generateActionPlan(probe.engine, probe.terms, probe.components))

\* the plan PlanAsStatedWitness looks at
probePlan == generateActionPlan(probe.engine, probe.terms, probe.components)

\* eleven terms, the odd ones undefined, inconsistent and 5 times present,
\* the even ones undefined and 3 times present, and five components under
\* 60: the shared engine lists terms 1, 3, 5 twice, the two lowest
\* components and its two reminders
PlanAsStatedWitness ==
  /\ probe.kind = "terms"
  /\ probe.engine = "shared"
  /\ Len(probe.terms) = 11
  /\ ~probe.terms[1].isDefined /\ probe.terms[1].inconsistencyDetected
  /\ probe.terms[1].occurrences = 5
  /\ ~probe.terms[2].isDefined /\ ~probe.terms[2].inconsistencyDetected
  /\ probe.terms[2].occurrences = 3
  /\ Cardinality({k \in 1..6 : probe.components[k].score < 600}) = 5
  /\ Len(probePlan) = 10
  /\ probePlan[1] = [priority |-> "quick_win", action |-> <<"Define", 1, 5>>]
  /\ probePlan[3].action[2] = 5
  /\ probePlan[6] = [priority |-> "high_impact", action |-> <<"Standardize", 5, 2>>]
  /\ probePlan[7] = [priority |-> "systemic", action |-> <<"Improve", "Ownership Clarity", 0>>]
  /\ probePlan[8].action[2] = "Jargon Load"
  /\ probePlan[10].priority = "maintenance"

\* C13: in every term analysis produced by analyzeTerms, definitionQuality
\* is "missing" if and only if isDefined is false, and the quality of a
\* defined term is one of complete, partial, minimal
MissingIffUndefined ==
  \A k \in 1..Len(analyses) :
    /\ (analyses[k].definitionQuality = "missing") <=> (analyses[k].isDefined = FALSE)
    /\ analyses[k].isDefined \in BOOLEAN
    /\ analyses[k].isDefined => analyses[k].definitionQuality \in {"complete", "partial", "minimal"}

\* a completed analysis with a completely defined term and an undefined one
MissingIffUndefinedWitness ==
  /\ Completed
  /\ \E k \in 1..Len(analyses) :
       analyses[k].isDefined /\ analyses[k].definitionQuality = "complete"
  /\ \E k \in 1..Len(analyses) :
       ~analyses[k].isDefined /\ analyses[k].definitionQuality = "missing"

\* the documents, by id, in which the term has an occurrence
DocumentsOf(term) ==
  UNION {{termOccurrences[e].occurrences[o].docId :
            o \in 1..Len(termOccurrences[e].occurrences)} :
           e \in {x \in 1..Len(termOccurrences) : termOccurrences[x].term = term}}
\* the replies the capability gave in this run to questions about the term
RepliesAbout(term) ==
  {j \in 1..Len(capLog) : capLog[j].question.term = term}

\* C14: in every term analysis inconsistencyDetected is true only if the
\* term occurs in more than one document and the capability was consulted
\* for that term; when the capability is unavailable (useAI false or no
\* client) or the term is in a single document, it is false and no
\* capability call is made
InconsistencyOnlyWhenConsulted ==
  /\ \A k \in 1..Len(analyses) :
       analyses[k].inconsistencyDetected =>
         /\ Cardinality(DocumentsOf(analyses[k].term)) > 1
         /\ \E j \in RepliesAbout(analyses[k].term) : capLog[j].reply = "inconsistent"
  /\ ~(request.body.useAI /\ apiKey) =>
       /\ capLog = <<>>
       /\ call = NoCall
       /\ \A k \in 1..Len(analyses) : ~analyses[k].inconsistencyDetected
  /\ \A e \in 1..Len(termOccurrences) :
       Cardinality(DocumentsOf(termOccurrences[e].term)) <= 1 =>
         /\ RepliesAbout(termOccurrences[e].term) = {}
         /\ call # NoCall => call.term # termOccurrences[e].term
         /\ \A k \in 1..Len(analyses) :
              analyses[k].term = termOccurrences[e].term => ~analyses[k].inconsistencyDetected

\* a completed analysis in which a term of two documents was found
\* inconsistent and a term of one document was not put to the capability
InconsistencyOnlyWhenConsultedWitness ==
  /\ Completed
  /\ \E k \in 1..Len(analyses) :
       /\ analyses[k].inconsistencyDetected
       /\ Cardinality(DocumentsOf(analyses[k].term)) = 2
  /\ \E k \in 1..Len(analyses) :
       /\ Cardinality(DocumentsOf(analyses[k].term)) = 1
       /\ RepliesAbout(analyses[k].term) = {}
  /\ Len(capLog) = 1

\* C15: for every term with occurrences in two or more different input
\* documents, when the capability is available, analyzeTerms invokes it
\* exactly once for that term, with the contexts of the term's first two
\* occurrences, and records the verdict as inconsistencyDetected; also when
\* the documents share a name
SpanningTermConsultedOnce ==
  (pc \in {"analyzed", "responded"} /\ request.body.useAI /\ apiKey) =>
    \A e \in 1..Len(termOccurrences) :
      Cardinality(DocumentsOf(termOccurrences[e].term)) >= 2 =>
        /\ Cardinality(RepliesAbout(termOccurrences[e].term)) = 1
        /\ \A j \in RepliesAbout(termOccurrences[e].term) :
             /\ capLog[j].question.contextA = termOccurrences[e].occurrences[1].context
             /\ capLog[j].question.contextB = termOccurrences[e].occurrences[2].context
             /\ \E k \in 1..Len(analyses) :
                  /\ analyses[k].term = termOccurrences[e].term
                  /\ analyses[k].inconsistencyDetected = (capLog[j].reply = "inconsistent")

\* the sentences of a content: the maximal runs of tokens between terminators
SentencesIn(content) ==
  Cardinality({i \in 1..Len(content) :
                 /\ content[i] \notin {".", "!", "?"}
                 /\ (i = 1 \/ content[i - 1] \in {".", "!", "?"})})
SentencesInAll(docs) == SumSeq([k \in 1..Len(docs) |-> SentencesIn(docs[k].content)])

\* C16: the Threshold Specificity scorer returns the fallback score 70
\* whenever the documents contain zero sentences in total (as when every
\* document's content is empty); otherwise it returns
\* max(0, 100 - 200 * vaguePatternCount / sentenceCount) rounded to one decimal
ThresholdSpecificityAsStated ==
  Completed =>
    LET c == result.components[4]
        sentences == SentencesInAll(inputs)
        exact == 1000 * sentences - 2000 * c.details.vague_patterns_found
    IN IF sentences = 0 THEN c.score = 700
       ELSE IF exact <= 0 THEN c.score = 0
       ELSE /\ 2 * (sentences * c.score - exact) <= sentences
            /\ 2 * (exact - sentences * c.score) <= sentences

\* the quality stated for a definition with the given signals
StatedQuality(hasThreshold, hasBoundary) ==
  IF hasThreshold /\ hasBoundary THEN "complete"
  ELSE IF hasThreshold \/ hasBoundary THEN "partial"
  ELSE "minimal"
\* the documents, by place in the input, in which a template matches the term
DefiningDocuments(term) ==
  {i \in 1..Len(inputs) : findDefinition(impl, term, inputs[i].content).found}
\* the analysis a takes its definition from the document at place i
DefinedBy(a, i) ==
  LET d == findDefinition(impl, a.term, inputs[i].content)
  IN /\ a.isDefined
     /\ a.hasThreshold = d.hasThreshold
     /\ a.hasBoundary = d.hasBoundary
     /\ a.definitionQuality = StatedQuality(d.hasThreshold, d.hasBoundary)
\* the analysis a takes its definition from the first of the documents at
\* the places hits, and has none when there is none
DefinedByFirstOf(a, hits) ==
  IF hits = {} THEN ~a.isDefined /\ a.definitionQuality = "missing"
  ELSE DefinedBy(a, CHOOSE i \in hits : \A j \in hits : i <= j)
\* a text in which the third template matches first and the first template
\* later: the first template's definition carries no signal
TwoTemplates ==
  <<"Support", ":", "help", "within", "24", "hours", ".", "Support", "means", "anything", ".">>

\* C19: for each term the definition is taken from the first document, in
\* input order, in which any template matches (the first matching template
\* wins, later documents are not examined), and the quality is classified
\* from that definition only: complete with both a threshold and a boundary
\* signal, partial with exactly one, minimal with neither, missing if no
\* document matches; "Support means responding within 24 hours for issues
\* excluding hardware failures." gives hasThreshold, hasBoundary and complete
DefinitionFromFirstDocument ==
  /\ \A k \in 1..Len(analyses) :
       /\ DefinedByFirstOf(analyses[k], DefiningDocuments(analyses[k].term))
       /\ (analyses[k].term = "support"
           /\ inputs[1].content
                = <<"Support", "means", "responding", "within", "24", "hours", "for",
                    "issues", "excluding", "hardware", "failures", ".">>) =>
            /\ analyses[k].hasThreshold
            /\ analyses[k].hasBoundary
            /\ analyses[k].definitionQuality = "complete"
  /\ pc = "received" =>
       /\ findDefinition(impl, "support", TwoTemplates).text = <<"anything">>
       /\ ~findDefinition(impl, "support", TwoTemplates).hasThreshold

\* a completed analysis of two documents, both defining the term support:
\* the first with a boundary only, the second with a threshold as well, and
\* the quality is partial
DefinitionFromFirstDocumentWitness ==
  /\ Completed
  /\ Len(inputs) = 2
  /\ \E k \in 1..Len(analyses) :
       /\ analyses[k].term = "support"
       /\ DefiningDocuments("support") = {1, 2}
       /\ StatedQuality(findDefinition(impl, "support", inputs[2].content).hasThreshold,
                        findDefinition(impl, "support", inputs[2].content).hasBoundary)
            = "complete"
       /\ analyses[k].definitionQuality = "partial"
       /\ ~analyses[k].hasThreshold /\ analyses[k].hasBoundary

\* the place of a term among the entries of termOccurrences
EntryOf(term) ==
  CHOOSE e \in 1..Len(termOccurrences) : termOccurrences[e].term = term

\* C21: within one analysis the capability is invoked sequentially: at most
\* one call is outstanding at any time, calls are issued in term-analysis
\* order, at most one call is made per term, and no component scorer runs
\* before the last call has resolved or failed
CapabilityCalledSequentially ==
  /\ \A i, j \in 1..Len(capLog) :
       i < j => EntryOf(capLog[i].question.term) < EntryOf(capLog[j].question.term)
  /\ call.status = "sent" =>
       /\ pc = "awaiting"
       /\ response = NoResponse
       /\ Len(analyses) = call.index - 1
       /\ termOccurrences[call.index].term = call.term
       /\ \A j \in 1..Len(capLog) : EntryOf(capLog[j].question.term) < call.index
  /\ response.statusCode = 200 =>
       /\ call = NoCall
       /\ Len(analyses) = Len(termOccurrences)

\* a completed analysis in which two calls were made, one after the other
CapabilityCalledSequentiallyWitness ==
  /\ Completed
  /\ Len(capLog) = 2
  /\ capLog[1].question.term # capLog[2].question.term
  /\ EntryOf(capLog[1].question.term) = 1

\* the result the given copy of the engine gives for the request of this
\* run, the capability giving the verdicts it gave in this run
resultOfEngine(engine) ==
  analysisResult(engine, inputs, request.body.companySize,
                 [k \in 1..Len(analyses) |->
                    [analyzeTerm(engine, termOccurrences[k], inputs)
                       EXCEPT !.inconsistencyDetected = analyses[k].inconsistencyDetected]],
                 clock)
\* the parts of a result the two copies are stated to agree on
sharedParts(r) ==
  [scores |-> scoresOf(r), overall_score |-> r.overall_score, score_band |-> r.score_band,
   high_risk_terms |->
     [k \in 1..Len(r.high_risk_terms) |->
        [term |-> r.high_risk_terms[k].term, risk_level |-> r.high_risk_terms[k].risk_level,
         issue |-> r.high_risk_terms[k].issue]],
   action_plan |-> r.action_plan]

\* C22: the algorithm inlined in the analyze function and the shared
\* semanticAnalyzer module are the same algorithm: for every document set,
\* companySize and capability behaviour they produce the same component
\* scores, overall_score, score_band, high_risk_terms (with their issue
\* labels) and action_plan
EnginesAgree ==
  Completed => sharedParts(resultOfEngine("inline")) = sharedParts(resultOfEngine("shared"))

\* the overall score and the band analyzeContent reports for the
\* components of the probe
probeScoreAndBand == scoreAndBandOf(overallScoreOf(probe.components))

\* C23: in every analysis result the reported score_band is the band that
\* getScoreBand assigns to the reported one-decimal overall_score of the same
\* result; a result reporting 85.0 reports the band excellent
BandOfReportedScore ==
  probe.kind = "terms" =>
    /\ probeScoreAndBand.score_band = getScoreBand(100 * probeScoreAndBand.overall_score)
    /\ probeScoreAndBand.overall_score = 850 => probeScoreAndBand.score_band = "excellent"

\* C24: whenever the capability is invoked for a term, the two contexts
\* passed to it are occurrences taken from two different documents, so that
\* the check compares usage across documents
ContextsFromTwoDocuments ==
  call.status = "sent" =>
    /\ call.contextA = termOccurrences[call.index].occurrences[1].context
    /\ call.contextB = termOccurrences[call.index].occurrences[2].context
    /\ termOccurrences[call.index].occurrences[1].docId
         # termOccurrences[call.index].occurrences[2].docId

\* the issue label of every risk term in R matches the flags of its term in T
IssueMatchesFlagsIn(T, R) ==
  \A i \in 1..Len(R) :
    /\ R[i].issue \in {"undefined", "high_frequency_undefined"} => ~T[R[i].term].isDefined
    /\ R[i].issue = "inconsistent_meaning" =>
         T[R[i].term].isDefined /\ T[R[i].term].inconsistencyDetected
    /\ R[i].issue = "undefined_and_inconsistent" <=>
         ~T[R[i].term].isDefined /\ T[R[i].term].inconsistencyDetected

\* C25: every risk term's issue label matches the flags that made it risky:
\* "undefined" or "high_frequency_undefined" only for terms with isDefined
\* false, "inconsistent_meaning" only for defined terms flagged inconsistent,
\* and "undefined_and_inconsistent" exactly for the terms both undefined and
\* flagged inconsistent
IssueMatchesFlags ==
  probe.kind = "terms" => IssueMatchesFlagsIn(probe.terms, probeRisks)

(***************************************************************************)
(* The scrape-website function.  A URL is a record [scheme, path] on one   *)
(* host: "https://example.com" has the path "", "https://example.com/" the *)
(* path "/".  The handler's state is the probe; each action runs the       *)
(* handler up to the next page fetched.                                    *)
(***************************************************************************)
IMPORTANT_PATHS ==
  <<"/", "/about", "/about-us", "/services", "/solutions", "/products", "/pricing",
    "/how-it-works", "/process", "/our-process", "/approach", "/why-us", "/faq">>

NoUrl == [scheme |-> "", path |-> "none"]
EnteredUrls ==
  [scheme : {"", "https://"}, path : {"", "/", "/about"}] \cup {NoUrl}
\* the maxPages of the body: <<n>>, or <<>> when the body has none
EnteredMaxPages == {<<0>>, <<1>>, <<2>>, <<>>}
\* the paths at which the site serves a page with text: every subset of
\* three of the important paths, and all of them
Sites == (SUBSET {"/", "/about", "/faq"}) \cup {Range(IMPORTANT_PATHS)}
ScrapeMethods == {"POST", "OPTIONS", "GET"}

\* let { url, maxPages = 10 } = body
maxPagesOf(entered) == IF entered = <<>> THEN 10 ELSE entered[1]
\* if (!url.startsWith('http://') && !url.startsWith('https://')) url = `https://${url}`
normalizedUrl(url) == [url EXCEPT !.scheme = "https://"]
\* new URL(path, baseUrl).href
hrefOf(path) == [scheme |-> "https://", path |-> path]
\* the page a server sends for a URL: the empty path is the path "/"
servedPath(url) == IF url.path = "" THEN "/" ELSE url.path
\* path.slice(1).replace(/-/g, ' ').replace(/\b\w/g, c => c.toUpperCase())
pageNameOf(path) == IF path = "/" THEN <<"Homepage">> ELSE <<"Titled", path>>

\* scrapePage(url, pageName): null is NoPage
NoPage == [name |-> "null"]
scrapePage(site, url, pageName) ==
  IF servedPath(url) \in site
  THEN [name |-> <<"Website:", pageName>>, type |-> "website",
        metadata |-> [url |-> url, pageName |-> pageName]]
  ELSE NoPage

InitScrape ==
  /\ Idle
  /\ probe \in [kind : {"scrape"}, httpMethod : ScrapeMethods, url : EnteredUrls,
                maxPages : EnteredMaxPages, site : Sites, at : {"start"}, next : {1},
                results : {<<>>}, scrapedUrls : {{}}, fetched : {<<>>},
                response : {NoResponse}]

\* the handler answers without scraping: OPTIONS, not POST, no url
ScrapeRejected ==
  /\ probe.kind = "scrape"
  /\ probe.at = "start"
  /\ probe.httpMethod # "POST" \/ probe.url = NoUrl
  /\ probe' = [probe EXCEPT
                 !.at = "done",
                 !.response =
                   IF probe.httpMethod = "OPTIONS" THEN [statusCode |-> 200, body |-> <<>>]
                   ELSE IF probe.httpMethod # "POST"
                     THEN [statusCode |-> 405, body |-> [error |-> "Method not allowed"]]
                   ELSE [statusCode |-> 400, body |-> [error |-> "URL is required"]]]
  /\ UNCHANGED <<impl, request, apiKey, pc, termOccurrences, analyses, call, capLog, capMemo,
                 clock, response, runs, prevResponse>>

\* the page kept: results.push(page); scrapedUrls.add(url)
pageKept(state, url, page) ==
  IF page = NoPage THEN [state EXCEPT !.fetched = Append(@, url)]
  ELSE [state EXCEPT !.fetched = Append(@, url),
                     !.results = Append(@, page),
                     !.scrapedUrls = @ \cup {url}]

\* the handler normalizes the URL and scrapes it as the Homepage
ScrapeMainPage ==
  /\ probe.kind = "scrape"
  /\ probe.at = "start"
  /\ probe.httpMethod = "POST" /\ probe.url # NoUrl
  /\ probe' = [pageKept(probe, normalizedUrl(probe.url),
                        scrapePage(probe.site, normalizedUrl(probe.url), <<"Homepage">>))
                 EXCEPT !.at = "paths"]
  /\ UNCHANGED <<impl, request, apiKey, pc, termOccurrences, analyses, call, capLog, capMemo,
                 clock, response, runs, prevResponse>>

\* one iteration of the loop over IMPORTANT_PATHS: break, continue, or
\* scrape the path
TryImportantPath ==
  /\ probe.kind = "scrape"
  /\ probe.at = "paths"
  /\ probe.next <= Len(IMPORTANT_PATHS)
  /\ probe' =
       IF Len(probe.results) >= maxPagesOf(probe.maxPages)
       THEN [probe EXCEPT !.next = Len(IMPORTANT_PATHS) + 1]
       ELSE IF hrefOf(IMPORTANT_PATHS[probe.next]) \in probe.scrapedUrls
       THEN [probe EXCEPT !.next = @ + 1]
       ELSE [pageKept(probe, hrefOf(IMPORTANT_PATHS[probe.next]),
                      scrapePage(probe.site, hrefOf(IMPORTANT_PATHS[probe.next]),
                                 pageNameOf(IMPORTANT_PATHS[probe.next])))
               EXCEPT !.next = @ + 1]
  /\ UNCHANGED <<impl, request, apiKey, pc, termOccurrences, analyses, call, capLog, capMemo,
                 clock, response, runs, prevResponse>>

\* after the loop: 400 without a page, else 200 with the pages
ScrapeResponds ==
  /\ probe.kind = "scrape"
  /\ probe.at = "paths"
  /\ probe.next > Len(IMPORTANT_PATHS)
  /\ probe' = [probe EXCEPT
                 !.at = "done",
                 !.response =
                   IF Len(probe.results) = 0
                   THEN [statusCode |-> 400, body |-> [error |-> "Could not extract content"]]
                   ELSE [statusCode |-> 200,
                         body |-> [success |-> TRUE, pages |-> probe.results,
                                   pagesScraped |-> Len(probe.results)]]]
  /\ UNCHANGED <<impl, request, apiKey, pc, termOccurrences, analyses, call, capLog, capMemo,
                 clock, response, runs, prevResponse>>

SpecScrape ==
  InitScrape /\ [][ScrapeRejected \/ ScrapeMainPage \/ TryImportantPath \/ ScrapeResponds]_vars

\* the scrape has answered 200 with pages
Scraped == probe.kind = "scrape" /\ probe.at = "done" /\ probe.httpMethod = "POST"
             /\ probe.response.statusCode = 200

\* C26: for every scrape request the number of pages in a successful
\* response never exceeds the requested maxPages (default 10), for every
\* maxPages including 0 and 1, and pagesScraped equals the length of pages
PagesWithinMaxPages ==
  Scraped =>
    /\ Len(probe.response.body.pages)
         <= (IF probe.maxPages = <<>> THEN 10 ELSE probe.maxPages[1])
    /\ probe.response.body.pagesScraped = Len(probe.response.body.pages)

\* C27: within one scrape request no page is fetched or returned twice: the
\* start URL and each important path are scraped at most once and the
\* returned pages are pairwise distinct; the homepage is never returned
\* twice, whether or not the entered URL ends with a slash
NoPageScrapedTwice ==
  probe.kind = "scrape" =>
    /\ \A i, j \in 1..Len(probe.fetched) :
         i # j => servedPath(probe.fetched[i]) # servedPath(probe.fetched[j])
    /\ \A i, j \in 1..Len(probe.results) :
         i # j => servedPath(probe.results[i].metadata.url)
                    # servedPath(probe.results[j].metadata.url)
    /\ Cardinality({i \in 1..Len(probe.results) :
                      probe.results[i].metadata.pageName = <<"Homepage">>}) <= 1

(***************************************************************************)
(* The browser app (public/js/app.js).  The probe holds the page: the two  *)
(* globals collectedInputs and analysisResult, the active section, the     *)
(* analyze button, the items of doc-list, the add operations awaiting      *)
(* their fetch or extraction, and the position of runAnalysis.  Each       *)
(* action is one event handler or one continuation after an await.  The    *)
(* controls of a section are used only while showSection has made that     *)
(* section the active one: start-over with the results, all others with    *)
(* the inputs.  History kept for the properties: the ids removeInput ran   *)
(* for, the number of resets, and in each input the number of resets when  *)
(* its add action started.                                                 *)
(***************************************************************************)
MaxAdds == 2
MaxAnalyses == 2
MaxResets == 1

NoRun == [at |-> "none", outcome |-> "none", sent |-> 0]
AnalyzeOutcomes == {"ok", "error", "failure"}

\* document.getElementById('analyze-btn').disabled = collectedInputs.length === 0
updateSummary(app) == [app EXCEPT !.analyzeDisabled = (Len(app.collectedInputs) = 0)]

removeInput(app, id) ==
  updateSummary([app EXCEPT
                   !.collectedInputs = SelectSeq(@, LAMBDA inp : inp.id # id),
                   !.docList = @ \ {id},
                   !.removed = @ \cup {id}])

startOver(app) ==
  [updateSummary([app EXCEPT !.collectedInputs = <<>>, !.analysisResult = "null",
                             !.docList = {}, !.resets = @ + 1])
     EXCEPT !.section = "input-section"]

\* a variant in which the successful branch never schedules the results
resultsNeverScheduled(app) ==
  [app EXCEPT !.analysisResult = "data", !.run.at = "done", !.analyzeDisabled = FALSE]

\* response.ok: analysisResult = data; setTimeout(..., 500); finally
resultsScheduled(app) ==
  [app EXCEPT !.analysisResult = "data", !.run.at = "timer", !.analyzeDisabled = FALSE]

\* the error branch and the catch: showSection('input-section'); finally
backToInputs(app) ==
  [app EXCEPT !.section = "input-section", !.run.at = "done", !.analyzeDisabled = FALSE]

InitApp ==
  /\ Idle
  /\ probe \in [kind : {"app"}, collectedInputs : {<<>>}, analysisResult : {"null"},
                section : {"input-section"}, analyzeDisabled : BOOLEAN, docList : {{}},
                pending : {{}}, removed : {{}}, resets : {0}, nextId : {1},
                run : {NoRun}, progressInterval : {FALSE}, messageInterval : {FALSE},
                analyses : {0}]

\* addText with at least 50 characters in the textarea
AddText ==
  /\ probe.kind = "app"
  /\ probe.section = "input-section"
  /\ probe.nextId <= MaxAdds
  /\ probe' = updateSummary([probe EXCEPT
                 !.collectedInputs =
                   Append(@, [id |-> probe.nextId, type |-> "text", epoch |-> probe.resets]),
                 !.nextId = @ + 1])
  /\ UNCHANGED <<impl, request, apiKey, pc, termOccurrences, analyses, call, capLog, capMemo,
                 clock, response, runs, prevResponse>>

\* addWebsite up to its fetch of /api/scrape-website (by the button or by
\* Enter in the url field)
AddWebsite ==
  /\ probe.kind = "app"
  /\ probe.section = "input-section"
  /\ probe.nextId <= MaxAdds
  /\ probe' = [probe EXCEPT
                 !.pending = @ \cup {[id |-> probe.nextId, type |-> "website",
                                      epoch |-> probe.resets]},
                 !.nextId = @ + 1]
  /\ UNCHANGED <<impl, request, apiKey, pc, termOccurrences, analyses, call, capLog, capMemo,
                 clock, response, runs, prevResponse>>

\* handleDocumentFiles with one file, up to the await of its extraction
HandleDocumentFile ==
  /\ probe.kind = "app"
  /\ probe.section = "input-section"
  /\ probe.nextId <= MaxAdds
  /\ probe' = [probe EXCEPT
                 !.docList = @ \cup {probe.nextId},
                 !.pending = @ \cup {[id |-> probe.nextId, type |-> "document",
                                      epoch |-> probe.resets]},
                 !.nextId = @ + 1]
  /\ UNCHANGED <<impl, request, apiKey, pc, termOccurrences, analyses, call, capLog, capMemo,
                 clock, response, runs, prevResponse>>

\* the fetch or the extraction of an add operation settles: with content
\* the input is pushed and the summary updated, else only a message shows
AddSettles ==
  /\ probe.kind = "app"
  /\ \E op \in probe.pending, content \in BOOLEAN :
       probe' =
         IF content
         THEN updateSummary([probe EXCEPT
                               !.pending = @ \ {op},
                               !.collectedInputs = Append(@, op)])
         ELSE [probe EXCEPT !.pending = @ \ {op}]
  /\ UNCHANGED <<impl, request, apiKey, pc, termOccurrences, analyses, call, capLog, capMemo,
                 clock, response, runs, prevResponse>>

\* the remove button of an item of doc-list
RemoveInput ==
  /\ probe.kind = "app"
  /\ probe.section = "input-section"
  /\ \E id \in probe.docList : probe' = removeInput(probe, id)
  /\ UNCHANGED <<impl, request, apiKey, pc, termOccurrences, analyses, call, capLog, capMemo,
                 clock, response, runs, prevResponse>>

\* runAnalysis up to its fetch of /api/analyze
RunAnalysis ==
  /\ probe.kind = "app"
  /\ probe.section = "input-section"
  /\ ~probe.analyzeDisabled
  /\ probe.analyses < MaxAnalyses
  /\ probe' = [probe EXCEPT
                 !.analyzeDisabled = TRUE,
                 !.section = "loading-section",
                 !.progressInterval = TRUE,
                 !.messageInterval = TRUE,
                 !.run = [at |-> "fetching", outcome |-> "none",
                          sent |-> Len(probe.collectedInputs)],
                 !.analyses = @ + 1]
  /\ UNCHANGED <<impl, request, apiKey, pc, termOccurrences, analyses, call, capLog, capMemo,
                 clock, response, runs, prevResponse>>

\* the fetch settles: both intervals are cleared; a response is then read
\* (await response.json()), a network failure goes to the catch.  The
\* function answers 200 only to a request with inputs.
AnalyzeSettles ==
  /\ probe.kind = "app"
  /\ probe.run.at = "fetching"
  /\ \E outcome \in AnalyzeOutcomes :
       /\ outcome = "ok" => probe.run.sent > 0
       /\ probe' =
            IF outcome = "failure"
            THEN backToInputs([probe EXCEPT !.progressInterval = FALSE,
                                            !.messageInterval = FALSE,
                                            !.run.outcome = outcome])
            ELSE [probe EXCEPT !.progressInterval = FALSE,
                               !.messageInterval = FALSE,
                               !.run.outcome = outcome,
                               !.run.at = "reading"]
  /\ UNCHANGED <<impl, request, apiKey, pc, termOccurrences, analyses, call, capLog, capMemo,
                 clock, response, runs, prevResponse>>

\* the body is read: the results are scheduled, or the error is alerted; an
\* error body that is not JSON goes to the catch, with the same effect
ResponseRead ==
  /\ probe.kind = "app"
  /\ probe.run.at = "reading"
  /\ probe' = IF probe.run.outcome = "ok" THEN resultsScheduled(probe)
              ELSE backToInputs(probe)
  /\ UNCHANGED <<impl, request, apiKey, pc, termOccurrences, analyses, call, capLog, capMemo,
                 clock, response, runs, prevResponse>>

\* the 500 ms timer: showSection('results-section')
ShowResults ==
  /\ probe.kind = "app"
  /\ probe.run.at = "timer"
  /\ probe' = [probe EXCEPT !.section = "results-section", !.run.at = "done"]
  /\ UNCHANGED <<impl, request, apiKey, pc, termOccurrences, analyses, call, capLog, capMemo,
                 clock, response, runs, prevResponse>>

\* the start-over button
StartOver ==
  /\ probe.kind = "app"
  /\ probe.section = "results-section"
  /\ probe.resets < MaxResets
  /\ probe' = startOver(probe)
  /\ UNCHANGED <<impl, request, apiKey, pc, termOccurrences, analyses, call, capLog, capMemo,
                 clock, response, runs, prevResponse>>

NextApp ==
  \/ AddText \/ AddWebsite \/ HandleDocumentFile \/ AddSettles \/ RemoveInput
  \/ RunAnalysis \/ AnalyzeSettles \/ ResponseRead \/ ShowResults \/ StartOver

\* a settled promise runs its continuation and a timer fires
SpecApp ==
  /\ InitApp
  /\ [][NextApp]_vars
  /\ WF_vars(AnalyzeSettles) /\ WF_vars(ResponseRead) /\ WF_vars(ShowResults)

\* C28: once removeInput(id) has run for an uploaded file's id, no input
\* with that id is in collectedInputs at any later time, also when the
\* removal happens while the file's text extraction is still in progress
RemovedStaysRemoved ==
  probe.kind = "app" =>
    \A i \in 1..Len(probe.collectedInputs) :
      probe.collectedInputs[i].id \notin probe.removed

\* C29: after startOver, collectedInputs contains only inputs whose add
\* action was started after the reset, and the analyze button stays
\* disabled while collectedInputs is empty
OnlyInputsAddedAfterReset ==
  (probe.kind = "app" /\ probe.resets > 0) =>
    /\ \A i \in 1..Len(probe.collectedInputs) :
         probe.collectedInputs[i].epoch = probe.resets
    /\ Len(probe.collectedInputs) = 0 => probe.analyzeDisabled

\* the request of the current runAnalysis has completed and runAnalysis has
\* not yet finished
AnalysisCompleted ==
  probe.kind = "app" /\ probe.run.outcome # "none" /\ probe.run.at # "done"
\* runAnalysis has left the loading section as stated
LeftLoading ==
  /\ probe.run.at = "done"
  /\ ~probe.progressInterval /\ ~probe.messageInterval
  /\ ~probe.analyzeDisabled
  /\ probe.section =
       (IF probe.run.outcome = "ok" THEN "results-section" ELSE "input-section")
  /\ probe.run.outcome = "ok" => probe.analysisResult = "data"

\* C30: every runAnalysis whose request completes (success, error response
\* or network failure) eventually leaves the loading section: both timers
\* cleared, the analyze button re-enabled, and the visible section
\* results-section (with analysisResult set) on success, input-section
\* otherwise
\* (runAnalysis finishes whenever its request has completed, and whenever it
\* finishes the page is as stated)
AnalysisLeavesLoading ==
  /\ AnalysisCompleted ~> (probe.run.at = "done")
  /\ [][(probe.kind = "app" /\ probe.run.at # "done" /\ probe'.run.at = "done")
          => LeftLoading']_vars

AnalysisLeavesLoadingWitness ==
  /\ probe.kind = "app"
  /\ probe.analyses = 2
  /\ probe.run.outcome = "ok"
  /\ LeftLoading
  /\ probe.pending # {}
====
